---- MODULE Spec2Model ----
(***************************************************************************)
(* A model of the UniSIMD assembler's emission rules:                      *)
(*   core/rtarch_x86.h              x86 BASE rules (byte stream)           *)
(*   core/rtarch_arm_128.h          ARMv7/8 NEON fp32 rules (word stream)  *)
(*   core/config/rtarch_x64_512x1v8.h   x86_64 AVX-512 fp64 rules          *)
(*                                                                         *)
(* A rule is a C macro that expands to a sequence of EMITB/EMITW items.    *)
(* Here a rule is an operator that returns that sequence.  An item is a    *)
(* record: [b |-> 0..255] is a byte, and the other shapes stand for what   *)
(* the macro leaves to the assembler or to another header:                 *)
(*   [asm |-> mnemonic, lb |-> label]   a label-targeted jump (ASM_OP1)    *)
(*   [disp |-> slot, nx |-> offset]     the displacement word of a slot    *)
(*                                      of the info structure              *)
(*   [pfx |-> name, args |-> values]    a prefix macro of another header   *)
(*   [rule |-> name, slot, nx, im]      a rule of another header, with the *)
(*                                      scratch slot it addresses          *)
(*   [undef |-> name]                   a call of a macro that no header   *)
(*                                      defines: the preprocessor leaves   *)
(*                                      the call in place and the build    *)
(*                                      stops there                        *)
(* Built code is also run: cpu is an IA-32, ARM or x86_64 processor that   *)
(* decodes the emitted items and executes them one instruction a step.     *)
(* 32-bit C values are TLC integers read as two's complement patterns:     *)
(* -1 is 0xFFFFFFFF.  \div and % are floor division and modulus, so        *)
(* (w \div 2^k) % 2 is bit k of the pattern for negative w as well.        *)
(***************************************************************************)
EXTENDS Integers, Sequences, FiniteSets, TLC

VARIABLES
    Q,          \* build configuration: SIMD width quotient (1, 2, 4)
    RT_512X1,   \* build configuration: revision of the x64 512-bit target
    req,        \* the rule invocation being built: name and operands
    out,        \* the items the build emitted for req
    status,     \* "idle", "ok" or "error": outcome of the build of req
    cpu         \* the machine that runs the built code: registers, memory,
                \* control registers and the position in the code

vars == <<Q, RT_512X1, req, out, status, cpu>>

(***************************************************************************)
(* Bounds of the model.                                                    *)
(***************************************************************************)
MaxDispStep == 1
MaxImmStep == 1

(***************************************************************************)
(* C operators on 32-bit patterns.                                         *)
(***************************************************************************)
RECURSIVE And(_, _)
And(a, b) ==
    IF a = 0 \/ b = 0 THEN 0
    ELSE IF a = -1 THEN b
    ELSE IF b = -1 THEN a
    ELSE ((a % 2) * (b % 2)) + 2 * And(a \div 2, b \div 2)

RECURSIVE Or(_, _)
Or(a, b) ==
    IF a = 0 THEN b
    ELSE IF b = 0 THEN a
    ELSE IF a = -1 \/ b = -1 THEN -1
    ELSE (IF (a % 2) + (b % 2) > 0 THEN 1 ELSE 0) + 2 * Or(a \div 2, b \div 2)

Pow2(n) == 2^n

Shl(a, n) == a * Pow2(n)

(***************************************************************************)
(* Emission primitives (rtarch.h): one byte, one little-endian word.       *)
(***************************************************************************)
(* exact numbers n / 2^e, kept with n odd or e = 0 *)
RECURSIVE RNorm(_, _)
RNorm(n, e) == IF e > 0 /\ n % 2 = 0 THEN RNorm(n \div 2, e - 1) ELSE <<n, e>>

R(n) == <<n, 0>>

RHalf == <<1, 1>>

RMul(a, b) == RNorm(a[1] * b[1], a[2] + b[2])

RAdd(a, b) ==
    IF a[2] >= b[2] THEN RNorm(a[1] + b[1] * Pow2(a[2] - b[2]), a[2])
    ELSE RNorm(a[1] * Pow2(b[2] - a[2]) + b[1], b[2])

RSub(a, b) == RAdd(a, <<0 - b[1], b[2]>>)

(* a quotient is carried when the divisor is a power of two, plus or minus *)
RIsPow2(b) == \E j \in 0..30 : b[1] = Pow2(j) \/ b[1] = 0 - Pow2(j)

RDiv(a, b) ==
    LET j == CHOOSE i \in 0..30 : b[1] = Pow2(i) \/ b[1] = 0 - Pow2(i)
    IN  RNorm((IF b[1] < 0 THEN 0 - a[1] ELSE a[1]) * Pow2(b[2]), a[2] + j)

EMPTY == <<>>

EMITB(b) == <<[b |-> b]>>

EMITW(w) == << [b |-> w % 256], [b |-> (w \div 256) % 256],
               [b |-> (w \div 65536) % 256], [b |-> (w \div 16777216) % 256] >>

(***************************************************************************)
(* rtarch_x86.h: structural and selector macros.                           *)
(***************************************************************************)
(* the reg and rem fields exchanged: the byte C10 must tell from MRM *)
MRM_fields_exchanged(reg, mod, rem) ==
    EMITB(Or(Or(Shl(mod, 6), Shl(rem, 3)), reg))

(* a ModRM byte that depends on how much was emitted before it *)
MRM_after_earlier_bytes(reg, mod, rem) ==
    EMITB((Or(Or(Shl(mod, 6), Shl(reg, 3)), rem) + Len(out)) % 256)

MRM(reg, mod, rem) == EMITB(Or(Or(Shl(mod, 6), Shl(reg, 3)), rem))

AUX(sib, cdp, cim) == sib \o cdp \o cim

REG(t) == t[1]
MOD(t) == t[2]
SIB(t) == t[3]

VAL(t) == t[1]
TYP(t) == t[2]
CMD(t) == t[3]

(* registers and addressing: REG, MOD, SIB *)
D == [ Reax |-> <<0, 3, EMPTY>>, Recx |-> <<1, 3, EMPTY>>,
       Redx |-> <<2, 3, EMPTY>>, Rebx |-> <<3, 3, EMPTY>>,
       Rebp |-> <<5, 3, EMPTY>>, Resi |-> <<6, 3, EMPTY>>,
       Redi |-> <<7, 3, EMPTY>>,
       Oeax |-> <<0, 0, EMPTY>>,
       Mecx |-> <<1, 2, EMPTY>>, Medx |-> <<2, 2, EMPTY>>,
       Mebx |-> <<3, 2, EMPTY>>, Mebp |-> <<5, 2, EMPTY>>,
       Mesi |-> <<6, 2, EMPTY>>, Medi |-> <<7, 2, EMPTY>>,
       Iecx |-> <<4, 2, EMITB(1)>>, Iedx |-> <<4, 2, EMITB(2)>>,
       Iebx |-> <<4, 2, EMITB(3)>>, Iebp |-> <<4, 2, EMITB(5)>>,
       Iesi |-> <<4, 2, EMITB(6)>>, Iedi |-> <<4, 2, EMITB(7)>> ]

(* immediate    VAL,  TYP,  CMD *)
IC(im) == <<im, 2, EMITB(And(im, \h7F))>>
IB(im) == <<im, 0, EMITW(And(im, \hFF))>>
IM(im) == <<im, 0, EMITW(And(im, \hFFF))>>
IG(im) == <<im, 0, EMITW(And(im, \h7FFF))>>
IH(im) == <<im, 0, EMITW(And(im, \hFFFF))>>
IV(im) == <<im, 0, EMITW(And(im, \h7FFFFFFF))>>
IW(im) == <<im, 0, EMITW(And(im, -1))>>

(* displacement VAL,  TYP,  CMD *)
(* DP with the mask of Q = 1 at every Q: the variant C2 must tell from DP *)
DP_unscaled(dp) == <<dp, 0, EMITW(And(dp, Or(\hFFC, \hC)))>>
DP(dp) == <<dp, 0, EMITW(And(dp, Or(\hFFC * Q, \hC)))>>
DF(dp) == <<dp, 0, EMITW(And(dp, Or(\h3FFC * Q, \hC)))>>
DG(dp) == <<dp, 0, EMITW(And(dp, Or(\h7FFC * Q, \hC)))>>
DH(dp) == <<dp, 0, EMITW(And(dp, Or(\hFFFC * Q, \hC)))>>
DV(dp) == <<dp, 0, EMITW(And(dp, \h7FFFFFFC))>>
PLAIN == <<0, 0, EMPTY>>

(* the scratch slots of the info structure (rtarch.h): a displacement      *)
(* descriptor whose word is fixed by the layout of that structure          *)
inf_SCR01(nx) == <<nx, 0, <<[disp |-> "inf_SCR01", nx |-> nx]>> >>

(***************************************************************************)
(* Every macro name that rtarch_x86.h defines.  A call of any other name   *)
(* is left in place by the preprocessor.                                   *)
(***************************************************************************)
DefinedX86 == {
    "MRM", "AUX", "REG", "MOD", "SIB", "VAL", "TYP", "CMD", "Reax", "Recx",
    "Redx", "Rebx", "Rebp", "Resi", "Redi", "Oeax", "Mecx", "Medx", "Mebx",
    "Mebp", "Mesi", "Medi", "Iecx", "Iedx", "Iebx", "Iebp", "Iesi", "Iedi",
    "IC", "IB", "IM", "IG", "IH", "IV", "IW", "DP", "DF", "DG", "DH", "DV",
    "PLAIN", "W", "movwx_ri", "movwx_mi", "movwx_rr", "movwx_ld",
    "movwx_st", "movxx_ri", "movxx_mi", "movxx_rr", "movxx_ld", "movxx_st",
    "adrxx_ld", "andwx_ri", "andwx_mi", "andwx_rr", "andwx_ld", "andwx_st",
    "andxx_ri", "andxx_mi", "andxx_rr", "andxx_ld", "andxx_st", "andwz_ri",
    "andwz_mi", "andwz_rr", "andwz_ld", "andwz_st", "andxz_ri", "andxz_mi",
    "andxz_rr", "andxz_ld", "andxz_st", "orrwx_ri", "orrwx_mi", "orrwx_rr",
    "orrwx_ld", "orrwx_st", "orrxx_ri", "orrxx_mi", "orrxx_rr", "orrxx_ld",
    "orrxx_st", "orrwz_ri", "orrwz_mi", "orrwz_rr", "orrwz_ld", "orrwz_st",
    "orrxz_ri", "orrxz_mi", "orrxz_rr", "orrxz_ld", "orrxz_st", "xorwx_ri",
    "xorwx_mi", "xorwx_rr", "xorwx_ld", "xorwx_st", "xorxx_ri", "xorxx_mi",
    "xorxx_rr", "xorxx_ld", "xorxx_st", "xorwz_ri", "xorwz_mi", "xorwz_rr",
    "xorwz_ld", "xorwz_st", "xorxz_ri", "xorxz_mi", "xorxz_rr", "xorxz_ld",
    "xorxz_st", "notwx_rx", "notwx_mx", "notxx_rx", "notxx_mx", "negwx_rx",
    "negwx_mx", "negxx_rx", "negxx_mx", "negwz_rx", "negwz_mx", "negxz_rx",
    "negxz_mx", "addwx_ri", "addwx_mi", "addwx_rr", "addwx_ld", "addwx_st",
    "addxx_ri", "addxx_mi", "addxx_rr", "addxx_ld", "addxx_st", "addwz_ri",
    "addwz_mi", "addwz_rr", "addwz_ld", "addwz_st", "addxz_ri", "addxz_mi",
    "addxz_rr", "addxz_ld", "addxz_st", "subwx_ri", "subwx_mi", "subwx_rr",
    "subwx_ld", "subwx_st", "subwx_mr", "subxx_ri", "subxx_mi", "subxx_rr",
    "subxx_ld", "subxx_st", "subxx_mr", "subwz_ri", "subwz_mi", "subwz_rr",
    "subwz_ld", "subwz_st", "subwz_mr", "subxz_ri", "subxz_mi", "subxz_rr",
    "subxz_ld", "subxz_st", "subxz_mr", "shlwx_rx", "shlwx_mx", "shlwx_ri",
    "shlwx_mi", "shlwx_rr", "shlwx_ld", "shlwx_st", "shlwx_mr", "shlxx_rx",
    "shlxx_mx", "shlxx_ri", "shlxx_mi", "shlxx_rr", "shlxx_ld", "shlxx_st",
    "shlxx_mr", "shlwz_rx", "shlwz_mx", "shlwz_ri", "shlwz_mi", "shlwz_rr",
    "shlwz_ld", "shlwz_st", "shlwz_mr", "shlxz_rx", "shlxz_mx", "shlxz_ri",
    "shlxz_mi", "shlxz_rr", "shlxz_ld", "shlxz_st", "shlxz_mr", "shrwx_rx",
    "shrwx_mx", "shrwx_ri", "shrwx_mi", "shrwx_rr", "shrwx_ld", "shrwx_st",
    "shrwx_mr", "shrxx_rx", "shrxx_mx", "shrxx_ri", "shrxx_mi", "shrxx_rr",
    "shrxx_ld", "shrxx_st", "shrxx_mr", "shrwz_rx", "shrwz_mx", "shrwz_ri",
    "shrwz_mi", "shrwz_rr", "shrwz_ld", "shrwz_st", "shrwz_mr", "shrxz_rx",
    "shrxz_mx", "shrxz_ri", "shrxz_mi", "shrxz_rr", "shrxz_ld", "shrxz_st",
    "shrxz_mr", "shrwn_rx", "shrwn_mx", "shrwn_ri", "shrwn_mi", "shrwn_rr",
    "shrwn_ld", "shrwn_st", "shrwn_mr", "shrxn_rx", "shrxn_mx", "shrxn_ri",
    "shrxn_mi", "shrxn_rr", "shrxn_ld", "shrxn_st", "shrxn_mr", "mulwx_ri",
    "mulwx_rr", "mulwx_ld", "mulxx_ri", "mulxx_rr", "mulxx_ld", "mulwx_xr",
    "mulwx_xm", "mulxx_xr", "mulxx_xm", "mulwn_xr", "mulwn_xm", "mulxn_xr",
    "mulxn_xm", "mulwp_xr", "mulwp_xm", "mulxp_xr", "mulxp_xm", "divwx_ri",
    "divwx_rr", "divwx_ld", "divxx_ri", "divxx_rr", "divxx_ld", "divwn_ri",
    "divwn_rr", "divwn_ld", "divxn_ri", "divxn_rr", "divxn_ld", "prewx_xx",
    "prewn_xx", "prexx_xx", "prexn_xx", "divwx_xr", "divwx_xm", "divxx_xr",
    "divxx_xm", "divwn_xr", "divwn_xm", "divxn_xr", "divxn_xm", "divwp_xr",
    "divwp_xm", "divxp_xr", "divxp_xm", "remwx_ri", "remwx_rr", "remwx_ld",
    "remxx_ri", "remxx_rr", "remxx_ld", "remwn_ri", "remwn_rr", "remwn_ld",
    "remxn_ri", "remxn_rr", "remxn_ld", "remwx_xx", "remwx_xr", "remwx_xm",
    "remxx_xx", "remxx_xr", "remxx_xm", "remwn_xx", "remwn_xr", "remwn_xm",
    "remxn_xx", "remxn_xr", "remxn_xm", "and_x", "orr_x", "xor_x", "neg_x",
    "add_x", "sub_x", "shl_x", "shr_x", "EZ_x", "NZ_x", "arjwx_rx",
    "arjwx_mx", "arjwx_ri", "arjwx_mi", "arjwx_rr", "arjwx_ld", "arjwx_st",
    "arjwx_mr", "arjxx_rx", "arjxx_mx", "arjxx_ri", "arjxx_mi", "arjxx_rr",
    "arjxx_ld", "arjxx_st", "arjxx_mr", "AR1", "AR2", "AR3", "CMJ", "EQ_x",
    "NE_x", "LT_x", "LE_x", "GT_x", "GE_x", "LT_n", "LE_n", "GT_n", "GE_n",
    "cmjwx_rz", "cmjwx_mz", "cmjwx_ri", "cmjwx_mi", "cmjwx_rr", "cmjwx_rm",
    "cmjwx_mr", "cmjxx_rz", "cmjxx_mz", "cmjxx_ri", "cmjxx_mi", "cmjxx_rr",
    "cmjxx_rm", "cmjxx_mr", "cmpwx_ri", "cmpwx_mi", "cmpwx_rr", "cmpwx_rm",
    "cmpwx_mr", "cmpxx_ri", "cmpxx_mi", "cmpxx_rr", "cmpxx_rm", "cmpxx_mr",
    "jmpxx_xr", "jmpxx_xm", "jmpxx_lb", "jezxx_lb", "jnzxx_lb", "jeqxx_lb",
    "jnexx_lb", "jltxx_lb", "jlexx_lb", "jgtxx_lb", "jgexx_lb", "jltxn_lb",
    "jlexn_lb", "jgtxn_lb", "jgexn_lb", "LBL", "cpuid_xx", "verxx_xx",
    "stack_st", "stack_ld", "stack_sa", "stack_la" }

Invoke(name, body) == IF name \in DefinedX86 THEN body ELSE <<[undef |-> name]>>

(***************************************************************************)
(* rtarch_x86.h: mov, adr.                                                 *)
(***************************************************************************)
movwx_ri(RM, IM_) ==
    EMITB(\hC7) \o MRM(0, MOD(RM), REG(RM))
    \o AUX(EMPTY, EMPTY, EMITW(And(VAL(IM_), Shl(TYP(IM_), 6) - 1)))

movwx_mi(RM, DP_, IM_) ==
    EMITB(\hC7) \o MRM(0, MOD(RM), REG(RM))
    \o AUX(SIB(RM), CMD(DP_), EMITW(And(VAL(IM_), Shl(TYP(IM_), 6) - 1)))

movwx_rr(RG, RM) == EMITB(\h8B) \o MRM(REG(RG), MOD(RM), REG(RM))

movwx_ld(RG, RM, DP_) ==
    EMITB(\h8B) \o MRM(REG(RG), MOD(RM), REG(RM)) \o AUX(SIB(RM), CMD(DP_), EMPTY)

movwx_st(RG, RM, DP_) ==
    EMITB(\h89) \o MRM(REG(RG), MOD(RM), REG(RM)) \o AUX(SIB(RM), CMD(DP_), EMPTY)

adrxx_ld(RG, RM, DP_) ==
    EMITB(\h8D) \o MRM(REG(RG), MOD(RM), REG(RM)) \o AUX(SIB(RM), CMD(DP_), EMPTY)

(***************************************************************************)
(* rtarch_x86.h: and, orr, xor, add, sub (flag-setting wz forms) and cmp.  *)
(* The six operations share one rule per operand shape and differ in the   *)
(* opcode fields below: ri is the ModRM extension of the immediate forms,  *)
(* rr the opcode of the _rr and _ld forms, st the opcode of the _st form.  *)
(***************************************************************************)
G1 == [ andwz |-> [ri |-> 4, rr |-> \h23, st |-> \h21],
        orrwz |-> [ri |-> 1, rr |-> \h0B, st |-> \h09],
        xorwz |-> [ri |-> 6, rr |-> \h33, st |-> \h31],
        addwz |-> [ri |-> 0, rr |-> \h03, st |-> \h01],
        subwz |-> [ri |-> 5, rr |-> \h2B, st |-> \h29],
        cmpwx |-> [ri |-> 7, rr |-> \h3B, st |-> \h39] ]

cmdwz_ri(op, RM, IM_) ==
    EMITB(Or(\h81, TYP(IM_))) \o MRM(G1[op].ri, MOD(RM), REG(RM))
    \o AUX(EMPTY, EMPTY, CMD(IM_))

cmdwz_mi(op, RM, DP_, IM_) ==
    EMITB(Or(\h81, TYP(IM_))) \o MRM(G1[op].ri, MOD(RM), REG(RM))
    \o AUX(SIB(RM), CMD(DP_), CMD(IM_))

cmdwz_rr(op, RG, RM) == EMITB(G1[op].rr) \o MRM(REG(RG), MOD(RM), REG(RM))

cmdwz_ld(op, RG, RM, DP_) ==
    EMITB(G1[op].rr) \o MRM(REG(RG), MOD(RM), REG(RM))
    \o AUX(SIB(RM), CMD(DP_), EMPTY)

cmdwz_st(op, RG, RM, DP_) ==
    EMITB(G1[op].st) \o MRM(REG(RG), MOD(RM), REG(RM))
    \o AUX(SIB(RM), CMD(DP_), EMPTY)

(***************************************************************************)
(* rtarch_x86.h: stack.                                                    *)
(***************************************************************************)
stack_st(RM) == EMITB(\hFF) \o MRM(6, MOD(RM), REG(RM))

stack_ld(RM) == EMITB(\h8F) \o MRM(0, MOD(RM), REG(RM))

(***************************************************************************)
(* rtarch_x86.h: shl, shr, shrn (wz forms): one rule per operand shape,    *)
(* the ModRM extension G2 tells the three operations apart.                *)
(***************************************************************************)
G2 == [ shlwz |-> 4, shrwz |-> 5, shrwn |-> 7 ]

shfwz_rx(op, RM) == EMITB(\hD3) \o MRM(G2[op], MOD(RM), REG(RM))

shfwz_mx(op, RM, DP_) ==
    EMITB(\hD3) \o MRM(G2[op], MOD(RM), REG(RM)) \o AUX(SIB(RM), CMD(DP_), EMPTY)

shfwz_ri(op, RM, IM_) ==
    EMITB(\hC1) \o MRM(G2[op], MOD(RM), REG(RM))
    \o AUX(EMPTY, EMPTY, EMITB(And(VAL(IM_), \h1F)))

shfwz_mi(op, RM, DP_, IM_) ==
    EMITB(\hC1) \o MRM(G2[op], MOD(RM), REG(RM))
    \o AUX(SIB(RM), CMD(DP_), EMITB(And(VAL(IM_), \h1F)))

shfwz_rr(op, RG, RM) ==
    Invoke("stack_st", stack_st(D.Recx))
    \o Invoke("movwx_rr", movwx_rr(D.Recx, RM))
    \o Invoke(op \o "_rx", shfwz_rx(op, RG))
    \o Invoke("stack_ld", stack_ld(D.Recx))

shfwz_ld(op, RG, RM, DP_) ==
    Invoke("stack_st", stack_st(D.Recx))
    \o Invoke("movwx_ld", movwx_ld(D.Recx, RM, DP_))
    \o Invoke(op \o "_rx", shfwz_rx(op, RG))
    \o Invoke("stack_ld", stack_ld(D.Recx))

shfwz_st(op, RG, RM, DP_) ==
    Invoke("stack_st", stack_st(D.Recx))
    \o Invoke("movwx_rr", movwx_rr(D.Recx, RG))
    \o Invoke(op \o "_mx", shfwz_mx(op, RM, DP_))
    \o Invoke("stack_ld", stack_ld(D.Recx))

(***************************************************************************)
(* rtarch_x86.h: mul.                                                      *)
(***************************************************************************)
mulwx_ri(RM, IM_) ==
    EMITB(Or(\h69, TYP(IM_))) \o MRM(REG(RM), MOD(RM), REG(RM))
    \o AUX(EMPTY, EMPTY, CMD(IM_))

mulwx_rr(RG, RM) ==
    EMITB(\h0F) \o EMITB(\hAF) \o MRM(REG(RG), MOD(RM), REG(RM))

mulwx_ld(RG, RM, DP_) ==
    EMITB(\h0F) \o EMITB(\hAF) \o MRM(REG(RG), MOD(RM), REG(RM))
    \o AUX(SIB(RM), CMD(DP_), EMPTY)

(***************************************************************************)
(* rtarch_x86.h: neg (wz forms).                                           *)
(***************************************************************************)
negwz_rx(RM) == EMITB(\hF7) \o MRM(3, MOD(RM), REG(RM))

negwz_mx(RM, DP_) ==
    EMITB(\hF7) \o MRM(3, MOD(RM), REG(RM)) \o AUX(SIB(RM), CMD(DP_), EMPTY)

(***************************************************************************)
(* rtarch_x86.h: div, rem.  The four operations share one composite per    *)
(* operand shape.  G3 holds what tells them apart: the Redx preparation    *)
(* the composite calls (pre), the native divide (nat, its ModRM extension  *)
(* ext), the register that carries the result (res) and the other one of   *)
(* the Reax/Redx pair (oth).                                               *)
(***************************************************************************)
G3 == [ divwx |-> [pre |-> "prewx_rr", nat |-> "divwx", ext |-> 6,
                   res |-> "Reax", oth |-> "Redx"],
        divwn |-> [pre |-> "prewn_rr", nat |-> "divwn", ext |-> 7,
                   res |-> "Reax", oth |-> "Redx"],
        remwx |-> [pre |-> "prewx_rr", nat |-> "divwx", ext |-> 6,
                   res |-> "Redx", oth |-> "Reax"],
        remwn |-> [pre |-> "prewn_rr", nat |-> "divwn", ext |-> 7,
                   res |-> "Redx", oth |-> "Reax"] ]

prewx_xx == movwx_ri(D.Redx, IC(0))

prewn_xx == movwx_rr(D.Redx, D.Reax) \o shfwz_ri("shrwn", D.Redx, IC(31))

divwx_xr(op, RM) ==
    EMITB(\hF7) \o MRM(G3[op].ext, MOD(RM), REG(RM)) \o AUX(EMPTY, EMPTY, EMPTY)

divwx_xm(op, RM, DP_) ==
    EMITB(\hF7) \o MRM(G3[op].ext, MOD(RM), REG(RM))
    \o AUX(SIB(RM), CMD(DP_), EMPTY)

divwx_ri(op, RM, IM_) ==
    Invoke("stack_st", stack_st(D[G3[op].res]))
    \o Invoke("stack_st", stack_st(D[G3[op].oth]))
    \o Invoke("movwx_mi", movwx_mi(D.Mebp, inf_SCR01(0), IM_))
    \o Invoke("movwx_rr", movwx_rr(D.Reax, RM))
    \o Invoke(G3[op].pre, EMPTY)      \* no header holds a body for it
    \o Invoke(G3[op].nat \o "_xm", divwx_xm(op, D.Mebp, inf_SCR01(0)))
    \o Invoke("stack_ld", stack_ld(D[G3[op].oth]))
    \o Invoke("movwx_rr", movwx_rr(RM, D[G3[op].res]))
    \o Invoke("stack_ld", stack_ld(D[G3[op].res]))

divwx_rr(op, RG, RM) ==
    Invoke("stack_st", stack_st(D[G3[op].res]))
    \o Invoke("stack_st", stack_st(D[G3[op].oth]))
    \o Invoke("movwx_rr", movwx_rr(D.Reax, RG))
    \o Invoke(G3[op].pre, EMPTY)      \* no header holds a body for it
    \o Invoke(G3[op].nat \o "_xr", divwx_xr(op, RM))
    \o Invoke("stack_ld", stack_ld(D[G3[op].oth]))
    \o Invoke("movwx_rr", movwx_rr(RG, D[G3[op].res]))
    \o Invoke("stack_ld", stack_ld(D[G3[op].res]))

divwx_ld(op, RG, RM, DP_) ==
    Invoke("stack_st", stack_st(D[G3[op].res]))
    \o Invoke("stack_st", stack_st(D[G3[op].oth]))
    \o Invoke("movwx_rr", movwx_rr(D.Reax, RG))
    \o Invoke(G3[op].pre, EMPTY)      \* no header holds a body for it
    \o Invoke(G3[op].nat \o "_xm", divwx_xm(op, RM, DP_))
    \o Invoke("stack_ld", stack_ld(D[G3[op].oth]))
    \o Invoke("movwx_rr", movwx_rr(RG, D[G3[op].res]))
    \o Invoke("stack_ld", stack_ld(D[G3[op].res]))

(***************************************************************************)
(* rtarch_x86.h: label-targeted jumps and the condition-code tables.       *)
(***************************************************************************)
JMP == [ jmpxx_lb |-> "jmp", jezxx_lb |-> "jz",  jnzxx_lb |-> "jnz",
         jeqxx_lb |-> "je",  jnexx_lb |-> "jne",
         jltxx_lb |-> "jb",  jlexx_lb |-> "jbe",
         jgtxx_lb |-> "ja",  jgexx_lb |-> "jae",
         jltxn_lb |-> "jl",  jlexn_lb |-> "jle",
         jgtxn_lb |-> "jg",  jgexn_lb |-> "jge" ]

jxxxx_lb(rule, lb) == <<[asm |-> JMP[rule], lb |-> lb]>>

(* the signed codes given the unsigned jumps: the table C6 must tell from  *)
(* CC                                                                      *)
CC_unsigned_only ==
      [ EZ_x |-> "jezxx_lb", NZ_x |-> "jnzxx_lb",
        EQ_x |-> "jeqxx_lb", NE_x |-> "jnexx_lb",
        LT_x |-> "jltxx_lb", LE_x |-> "jlexx_lb",
        GT_x |-> "jgtxx_lb", GE_x |-> "jgexx_lb",
        LT_n |-> "jltxx_lb", LE_n |-> "jlexx_lb",
        GT_n |-> "jgtxx_lb", GE_n |-> "jgexx_lb" ]

CC == [ EZ_x |-> "jezxx_lb", NZ_x |-> "jnzxx_lb",
        EQ_x |-> "jeqxx_lb", NE_x |-> "jnexx_lb",
        LT_x |-> "jltxx_lb", LE_x |-> "jlexx_lb",
        GT_x |-> "jgtxx_lb", GE_x |-> "jgexx_lb",
        LT_n |-> "jltxn_lb", LE_n |-> "jlexn_lb",
        GT_n |-> "jgtxn_lb", GE_n |-> "jgexn_lb" ]

CMJ(cc, lb) == Invoke(CC[cc], jxxxx_lb(CC[cc], lb))

OPX == [ and_x |-> "and", orr_x |-> "orr", xor_x |-> "xor", neg_x |-> "neg",
         add_x |-> "add", sub_x |-> "sub", shl_x |-> "shl", shr_x |-> "shr" ]

(***************************************************************************)
(* Macro call resolution: the rule op_form applied to the operands a.      *)
(* The preprocessor looks the name up; only a defined name has a body.     *)
(***************************************************************************)
Rule(op, form, a) ==
    Invoke(op \o "_" \o form,
      CASE op = "movwx" ->
            (CASE form = "ri" -> movwx_ri(a.RM, a.IM)
               [] form = "mi" -> movwx_mi(a.RM, a.DP, a.IM)
               [] form = "rr" -> movwx_rr(a.RG, a.RM)
               [] form = "ld" -> movwx_ld(a.RG, a.RM, a.DP)
               [] form = "st" -> movwx_st(a.RG, a.RM, a.DP))
        [] op = "adrxx" -> adrxx_ld(a.RG, a.RM, a.DP)
        [] op \in DOMAIN G1 ->
            (CASE form = "ri" -> cmdwz_ri(op, a.RM, a.IM)
               [] form = "mi" -> cmdwz_mi(op, a.RM, a.DP, a.IM)
               [] form = "rr" -> cmdwz_rr(op, a.RG, a.RM)
               [] form \in {"ld", "rm"} -> cmdwz_ld(op, a.RG, a.RM, a.DP)
               [] form \in {"st", "mr"} -> cmdwz_st(op, a.RG, a.RM, a.DP))
        [] op \in DOMAIN G2 ->
            (CASE form = "rx" -> shfwz_rx(op, a.RM)
               [] form = "mx" -> shfwz_mx(op, a.RM, a.DP)
               [] form = "ri" -> shfwz_ri(op, a.RM, a.IM)
               [] form = "mi" -> shfwz_mi(op, a.RM, a.DP, a.IM)
               [] form = "rr" -> shfwz_rr(op, a.RG, a.RM)
               [] form = "ld" -> shfwz_ld(op, a.RG, a.RM, a.DP)
               [] form \in {"st", "mr"} -> shfwz_st(op, a.RG, a.RM, a.DP))
        [] op = "mulwx" ->
            (CASE form = "ri" -> mulwx_ri(a.RM, a.IM)
               [] form = "rr" -> mulwx_rr(a.RG, a.RM)
               [] form = "ld" -> mulwx_ld(a.RG, a.RM, a.DP))
        [] op = "negwz" ->
            (CASE form = "rx" -> negwz_rx(a.RM)
               [] form = "mx" -> negwz_mx(a.RM, a.DP))
        [] op \in DOMAIN G3 ->
            (CASE form = "ri" -> divwx_ri(op, a.RM, a.IM)
               [] form = "rr" -> divwx_rr(op, a.RG, a.RM)
               [] form = "ld" -> divwx_ld(op, a.RG, a.RM, a.DP)))

(***************************************************************************)
(* rtarch_x86.h: arj and cmj, the fused operate-and-jump rules.            *)
(* AR1, AR2, AR3 paste the operation name to the wz form of the shape.     *)
(***************************************************************************)
AR(a, op, form) == Rule(op \o "wz", form, a)

(* the jump placed ahead of the operation: the variant C7 must tell from    *)
(* arjwx                                                                   *)
arjwx_jump_first(form, a, opx, cc, lb) ==
    Invoke("arjwx_" \o form,
           CMJ(cc, lb) \o AR(a, OPX[opx], IF form = "mr" THEN "st" ELSE form))

arjwx(form, a, opx, cc, lb) ==
    Invoke("arjwx_" \o form,
           AR(a, OPX[opx], IF form = "mr" THEN "st" ELSE form) \o CMJ(cc, lb))

cmjwx(form, a, cc, lb) ==
    LET zero == form \in {"rz", "mz"}
        inner == CASE form = "rz" -> "ri" [] form = "mz" -> "mi" [] OTHER -> form
    IN  Invoke("cmjwx_" \o form,
          Invoke("cmjwx_" \o inner,
            Rule("cmpwx", inner, IF zero THEN a @@ [IM |-> IC(0)] ELSE a)
            \o CMJ(cc, lb)))

(***************************************************************************)
(* The operands of a request: descriptors are named in the request and     *)
(* looked up here.                                                         *)
(***************************************************************************)
Imm(i) == CASE i.K = "IC" -> IC(i.v) [] i.K = "IB" -> IB(i.v)
            [] i.K = "IM" -> IM(i.v) [] i.K = "IG" -> IG(i.v)
            [] i.K = "IH" -> IH(i.v) [] i.K = "IV" -> IV(i.v)
            [] i.K = "IW" -> IW(i.v)

Disp(d) == CASE d.K = "DP" -> DP(d.v) [] d.K = "DF" -> DF(d.v)
             [] d.K = "DG" -> DG(d.v) [] d.K = "DH" -> DH(d.v)
             [] d.K = "DV" -> DV(d.v) [] d.K = "PLAIN" -> PLAIN

Args(r) ==
    CASE r.form \in {"rx", "rz"} -> [RM |-> D[r.RM]]
      [] r.form \in {"mx", "mz"} -> [RM |-> D[r.RM], DP |-> Disp(r.DP)]
      [] r.form = "ri" -> [RM |-> D[r.RM], IM |-> Imm(r.IM)]
      [] r.form = "mi" ->
             [RM |-> D[r.RM], DP |-> Disp(r.DP), IM |-> Imm(r.IM)]
      [] r.form = "rr" -> [RG |-> D[r.RG], RM |-> D[r.RM]]
      [] r.form \in {"ld", "st", "rm", "mr"} ->
             [RG |-> D[r.RG], RM |-> D[r.RM], DP |-> Disp(r.DP)]

Expand(r) ==
    CASE r.kind = "base" -> Rule(r.op, r.form, Args(r))
      [] r.kind = "arj" -> arjwx(r.form, Args(r), r.opx, r.cc, r.lb)
      [] r.kind = "cmj" -> cmjwx(r.form, Args(r), r.cc, r.lb)

(***************************************************************************)
(* The build of one request: the expansion is the object code, unless a    *)
(* call was left unexpanded, and then the compiler stops with no output.   *)
(***************************************************************************)
Unexpanded(e) == {e[i].undef : i \in {j \in 1..Len(e) : "undef" \in DOMAIN e[j]}}

Build(r) ==
    LET e == Expand(r)
    IN  IF Unexpanded(e) = {} THEN [status |-> "ok", out |-> e]
        ELSE [status |-> "error", out |-> <<>>]

(***************************************************************************)
(* The requests the model builds.  Operands are drawn from every           *)
(* descriptor of the header; immediates and displacements from the low     *)
(* end, the high end and just past the high end of each class.             *)
(***************************************************************************)
RegNames == {"Reax", "Recx", "Redx", "Rebx", "Rebp", "Resi", "Redi"}

MemNames == {"Oeax", "Mecx", "Medx", "Mebx", "Mebp", "Mesi", "Medi",
             "Iecx", "Iedx", "Iebx", "Iebp", "Iesi", "Iedi"}

Labels == {"L1", "L2"}

(* the largest value each class passes through its mask unchanged *)
ImmTop == [ IC |-> \h7F, IB |-> \hFF, IM |-> \hFFF, IG |-> \h7FFF,
            IH |-> \hFFFF, IV |-> \h7FFFFFFF ]

DispTop(K) == CASE K = "DP" -> Or(\hFFC * Q, \hC)
                [] K = "DF" -> Or(\h3FFC * Q, \hC)
                [] K = "DG" -> Or(\h7FFC * Q, \hC)
                [] K = "DH" -> Or(\hFFFC * Q, \hC)
                [] K = "DV" -> \h7FFFFFFC

ImmVals(K) ==
    IF K = "IW" THEN {k : k \in 0..MaxImmStep} \cup {-1 - k : k \in 0..MaxImmStep}
    ELSE {k : k \in 0..MaxImmStep}
         \cup {ImmTop[K] - k : k \in 0..MaxImmStep}
         \cup {(IF K = "IV" THEN (-ImmTop[K]) - 1 ELSE ImmTop[K] + 1) + k :
                 k \in 0..MaxImmStep}
         \cup (IF K \in {"IC", "IB"}
               THEN {31 - k : k \in 0..MaxImmStep} \cup {32 + k : k \in 0..MaxImmStep}
               ELSE {})

DispVals(K) ==
    {4 * k : k \in 0..MaxDispStep}
    \cup {DispTop(K) - 4 * k : k \in 0..MaxDispStep}
    \cup {(IF K = "DV" THEN (-DispTop(K)) - 4 ELSE DispTop(K) + 4) + 4 * k :
            k \in 0..MaxDispStep}
    \cup {4 * k + j : k \in 0..MaxDispStep, j \in 1..3}

AllImms == UNION {{[K |-> K, v |-> v] : v \in ImmVals(K)} :
                    K \in {"IC", "IB", "IM", "IG", "IH", "IV", "IW"}}

AllDisps == {[K |-> "PLAIN", v |-> 0]}
            \cup UNION {{[K |-> K, v |-> v] : v \in DispVals(K)} :
                          K \in {"DP", "DF", "DG", "DH", "DV"}}

CoreImms == {[K |-> "IC", v |-> 1], [K |-> "IC", v |-> \h7F],
             [K |-> "IB", v |-> \hFF], [K |-> "IH", v |-> \h100],
             [K |-> "IW", v |-> -1]}

CoreDisps == {[K |-> "PLAIN", v |-> 0], [K |-> "DP", v |-> 0],
              [K |-> "DP", v |-> DispTop("DP")], [K |-> "DV", v |-> DispTop("DV")]}

CoreRegs == {"Reax", "Rebx"}

CoreMems == {"Oeax", "Mebp", "Iecx", "Reax"}

CoreOps == {"movwx", "addwz", "cmpwx", "mulwx", "shlwz"}

(* register-position operands: every register, and a memory descriptor of  *)
(* each kind; memory-position operands: every descriptor                   *)
RegOps == RegNames \cup {"Oeax", "Mebx", "Iesi"}

MemOps == MemNames \cup RegNames

(* the displacement a memory descriptor is written with *)
NaturalDisp(m) == IF m = "Oeax" THEN [K |-> "PLAIN", v |-> 0]
                  ELSE [K |-> "DP", v |-> 4]

G0 == {"movwx"} \cup DOMAIN G1

Emit(r) ==
    LET b == Build(r)
    IN  /\ req' = r
        /\ out' = b.out
        /\ status' = b.status
        /\ UNCHANGED <<Q, RT_512X1, cpu>>

(* Each action draws every value of one operand with the other operands    *)
(* at their core values, and the core values of all operands together.     *)
OpsRR == G0 \cup {"mulwx"} \cup DOMAIN G2 \cup DOMAIN G3

OpsLD == G0 \cup {"adrxx", "mulwx"} \cup DOMAIN G2 \cup DOMAIN G3

OpsST == G0 \cup DOMAIN G2

RegImms ==
    {<<m, i>> : m \in RegOps, i \in CoreImms}
    \cup {<<m, i>> : m \in CoreRegs, i \in AllImms}

RegMems ==
    {<<g, m, NaturalDisp(m)>> : g \in CoreRegs, m \in MemOps}
    \cup {<<g, m, NaturalDisp(m)>> : g \in RegNames, m \in CoreMems}
    \cup {<<g, m, d>> : g \in CoreRegs, m \in CoreMems, d \in CoreDisps}

MemImms ==
    {<<m, NaturalDisp(m), i>> : m \in MemOps, i \in CoreImms}
    \cup {<<m, d, i>> : m \in CoreMems, d \in CoreDisps, i \in CoreImms}
    \cup {<<"Mebp", d, [K |-> "IC", v |-> 1]>> : d \in AllDisps}
    \cup {<<"Mebp", NaturalDisp("Mebp"), i>> : i \in AllImms}

EmitRR ==
    /\ status = "idle"
    /\ \E op \in OpsRR, RG \in RegOps, RM \in RegOps :
        Emit([kind |-> "base", op |-> op, form |-> "rr", RG |-> RG, RM |-> RM])

EmitRI ==
    /\ status = "idle"
    /\ \E op \in OpsRR, x \in RegImms :
        /\ op \in CoreOps \/ x[2] \in CoreImms
        /\ Emit([kind |-> "base", op |-> op, form |-> "ri",
                 RM |-> x[1], IM |-> x[2]])

EmitLD ==
    /\ status = "idle"
    /\ \E op \in OpsLD, x \in RegMems \cup ({"Reax"} \X CoreMems \X AllDisps) :
        /\ op = "movwx" \/ x \in RegMems
        /\ Emit([kind |-> "base", op |-> op,
                 form |-> IF op = "cmpwx" THEN "rm" ELSE "ld",
                 RG |-> x[1], RM |-> x[2], DP |-> x[3]])

EmitST ==
    /\ status = "idle"
    /\ \E op \in OpsST, x \in RegMems \cup ({"Reax"} \X CoreMems \X AllDisps) :
        /\ op = "movwx" \/ x \in RegMems
        /\ Emit([kind |-> "base", op |-> op,
                 form |-> IF op = "cmpwx" THEN "mr" ELSE "st",
                 RG |-> x[1], RM |-> x[2], DP |-> x[3]])

EmitMI ==
    /\ status = "idle"
    /\ \E op \in OpsST, x \in MemImms :
        /\ op \in CoreOps \/ (x[2] \in CoreDisps \cup {NaturalDisp(x[1])}
                               /\ x[3] \in CoreImms)
        /\ Emit([kind |-> "base", op |-> op, form |-> "mi",
                 RM |-> x[1], DP |-> x[2], IM |-> x[3]])

(* operand records of the fused rules, one set per operand shape; memory   *)
(* operands come with the displacement their descriptor takes              *)
FusedMems == { <<"Oeax", [K |-> "PLAIN", v |-> 0]>>,
               <<"Mebp", [K |-> "DP", v |-> 4]>>,
               <<"Iecx", [K |-> "DP", v |-> DispTop("DP")]>> }

FusedImms == {[K |-> "IC", v |-> 1], [K |-> "IB", v |-> \hFF]}

FusedRegs == {"Reax", "Recx", "Rebx"}

Shape(form) ==
    CASE form \in {"rx", "rz"} -> {[RM |-> m] : m \in FusedRegs}
      [] form \in {"mx", "mz"} ->
             {[RM |-> m[1], DP |-> m[2]] : m \in FusedMems}
      [] form = "ri" -> {[RM |-> m, IM |-> i] : m \in FusedRegs, i \in FusedImms}
      [] form = "mi" ->
             {[RM |-> m[1], DP |-> m[2], IM |-> i] : m \in FusedMems, i \in FusedImms}
      [] form = "rr" -> {[RG |-> g, RM |-> m] : g \in FusedRegs, m \in FusedRegs}
      [] form \in {"ld", "st", "rm", "mr"} ->
             {[RG |-> g, RM |-> m[1], DP |-> m[2]] : g \in FusedRegs, m \in FusedMems}

EmitARJ ==
    /\ status = "idle"
    /\ \E form \in {"rx", "mx", "ri", "mi", "rr", "ld", "st", "mr"},
          opx \in DOMAIN OPX, cc \in {"EZ_x", "NZ_x"}, lb \in Labels :
        \E a \in Shape(form) :
            Emit(a @@ [kind |-> "arj", form |-> form, opx |-> opx,
                       cc |-> cc, lb |-> lb])

EmitCMJ ==
    /\ status = "idle"
    /\ \E form \in {"rz", "mz", "ri", "mi", "rr", "rm", "mr"},
          cc \in DOMAIN CC, lb \in Labels :
        \E a \in Shape(form) :
            Emit(a @@ [kind |-> "cmj", form |-> form, cc |-> cc, lb |-> lb])

InitX86 ==
    /\ Q \in {1, 2, 4}
    /\ RT_512X1 = 0
    /\ req = [kind |-> "none"]
    /\ out = <<>>
    /\ status = "idle"
    /\ cpu = [arch |-> "none"]

NextX86 ==
    \/ EmitRR \/ EmitRI \/ EmitLD \/ EmitST \/ EmitMI
    \/ EmitARJ \/ EmitCMJ

Spec == InitX86 /\ [][NextX86]_vars

(***************************************************************************)
(* core/config/rtarch_x64_512x1v8.h: the internal rules of the 512-bit     *)
(* fp64 table.  The table is compiled under RT_512X1 in 1..8; inside, the  *)
(* rules of revisions 1 and 4 are the #if branch and those of revisions 2  *)
(* and 8 are the #else branch.  Outside 1..8 no rule is defined and a call *)
(* stays unexpanded.                                                       *)
(* The EVEX prefix macros and the address-size prefix come from            *)
(* rtarch_x64.h and rtarch_x32_512x1v8.h; they are kept as items that name *)
(* the macro and its arguments.                                            *)
(***************************************************************************)
MaxRev == 9

ADR == <<[pfx |-> "ADR", args |-> <<>>]>>

EVW(rxg, rxm, ren, len, pfx, aux) ==
    <<[pfx |-> "EVW", args |-> <<rxg, rxm, ren, len, pfx, aux>>]>>

EZW(rxg, rxm, ren, len, pfx, aux) ==
    <<[pfx |-> "EZW", args |-> <<rxg, rxm, ren, len, pfx, aux>>]>>

RXB(t) == (t[1] \div 8) % 2

REN(t) == t[1]

Rev512(name, v14, v28) ==
    IF RT_512X1 >= 1 /\ RT_512X1 <= 8
    THEN IF RT_512X1 = 1 \/ RT_512X1 = 4 THEN v14 ELSE v28
    ELSE <<[undef |-> name]>>

ck1qx_rm(XS, MT, DT) ==
    Rev512("ck1qx_rm",
           ADR \o EVW(0, RXB(MT), REN(XS), 2, 1, 2) \o EMITB(\h29)
               \o MRM(1, MOD(MT), REG(MT))
               \o AUX(SIB(MT), CMD(DT), EMPTY),
           EVW(0, RXB(XS), 0, 2, 2, 2) \o EMITB(\h39)
               \o MRM(1, MOD(XS), REG(XS)))

mz1qx_ld(XD, MS, DS) ==
    Rev512("mz1qx_ld",
           ADR \o EZW(RXB(XD), RXB(MS), 0, 2, 1, 1) \o EMITB(\h28)
               \o MRM(REG(XD), MOD(MS), REG(MS))
               \o AUX(SIB(MS), CMD(DS), EMPTY),
           EVW(RXB(XD), 0, 0, 2, 2, 2) \o EMITB(\h38)
               \o MRM(REG(XD), 3, 1))

(* the SIMD registers: register-direct triplets *)
Xmm_x64 == [n \in 0..7 |-> <<n, 3, EMPTY>>]

ExpandX64(r) ==
    CASE r.op = "ck1qx_rm" -> ck1qx_rm(Xmm_x64[r.X], D[r.M], Disp(r.DP))
      [] r.op = "mz1qx_ld" -> mz1qx_ld(Xmm_x64[r.X], D[r.M], Disp(r.DP))

EmitX64 ==
    /\ status = "idle"
    /\ \E op \in {"ck1qx_rm", "mz1qx_ld"}, X \in 0..7, M \in CoreMems \ {"Reax"} :
        LET r == [kind |-> "x64", op |-> op, X |-> X, M |-> M,
                  DP |-> NaturalDisp(M)]
            e == ExpandX64(r)
        IN  /\ req' = r
            /\ out' = IF Unexpanded(e) = {} THEN e ELSE <<>>
            /\ status' = IF Unexpanded(e) = {} THEN "ok" ELSE "error"
            /\ UNCHANGED <<Q, RT_512X1, cpu>>

InitX64 ==
    /\ Q = 4
    /\ RT_512X1 \in 0..MaxRev
    /\ req = [kind |-> "none"]
    /\ out = <<>>
    /\ status = "idle"
    /\ cpu = [arch |-> "none"]

NextX64 == EmitX64

SpecX64 == InitX64 /\ [][NextX64]_vars

(***************************************************************************)
(* The IA-32 instruction grammar, as the processor reads the byte stream:  *)
(* opcode, ModRM, optional SIB, optional displacement, optional immediate. *)
(* It is written from the instruction set reference, not from the rules,   *)
(* and covers the opcodes the BASE rules use.                              *)
(***************************************************************************)
IA32Opcodes ==
    { <<\h01>>, <<\h03>>, <<\h09>>, <<\h0B>>, <<\h21>>, <<\h23>>, <<\h29>>,
      <<\h2B>>, <<\h31>>, <<\h33>>, <<\h39>>, <<\h3B>>, <<\h69>>, <<\h6B>>,
      <<\h81>>, <<\h83>>, <<\h89>>, <<\h8B>>, <<\h8D>>, <<\h8F>>, <<\hC1>>,
      <<\hC7>>, <<\hD3>>, <<\hF7>>, <<\hFF>>, <<\h0F, \hAF>> }

IA32ImmLen(opc, reg) ==
    CASE opc \in {<<\h81>>, <<\hC7>>, <<\h69>>} -> 4
      [] opc \in {<<\h83>>, <<\h6B>>, <<\hC1>>} -> 1
      [] opc = <<\hF7>> /\ reg \in {0, 1} -> 4
      [] OTHER -> 0

IsByte(s, i) == i >= 1 /\ i <= Len(s) /\ DOMAIN s[i] = {"b"}

Bytes(s, i, n) == [k \in 1..n |-> s[i + k - 1].b]

(* the 32-bit pattern of four little-endian bytes *)
LE32(bs) ==
    bs[1] + 256 * bs[2] + 65536 * bs[3]
    + 16777216 * (IF bs[4] >= 128 THEN bs[4] - 256 ELSE bs[4])

IA32DecodeAt(s, i) ==
    LET bad == [ok |-> FALSE, next |-> Len(s) + 1]
    IN  IF ~IsByte(s, i) THEN bad
        ELSE
        LET opc == IF s[i].b = \h0F /\ IsByte(s, i + 1)
                   THEN <<\h0F, s[i + 1].b>> ELSE <<s[i].b>>
            m == i + Len(opc)
        IN  IF opc \notin IA32Opcodes \/ ~IsByte(s, m) THEN bad
            ELSE
            LET mod == s[m].b \div 64
                reg == (s[m].b \div 8) % 8
                rm == s[m].b % 8
                hasSib == mod # 3 /\ rm = 4
            IN  IF hasSib /\ ~IsByte(s, m + 1) THEN bad
                ELSE
                LET sib == IF hasSib THEN <<s[m + 1].b>> ELSE <<>>
                    d == m + 1 + Len(sib)
                    dlen == CASE mod = 2 -> 4
                              [] mod = 1 -> 1
                              [] mod = 0 /\ rm = 5 -> 4
                              [] mod = 0 /\ hasSib /\ sib[1] % 8 = 5 -> 4
                              [] OTHER -> 0
                    ilen == IA32ImmLen(opc, reg)
                IN  IF \E k \in d..(d + dlen + ilen - 1) : ~IsByte(s, k)
                    THEN bad
                    ELSE [ok |-> TRUE, opc |-> opc, mod |-> mod, reg |-> reg,
                          rm |-> rm, sib |-> sib,
                          disp |-> Bytes(s, d, dlen),
                          imm |-> Bytes(s, d + dlen, ilen),
                          next |-> d + dlen + ilen]

RECURSIVE IA32DecodeFrom(_, _)
IA32DecodeFrom(s, i) ==
    IF i > Len(s) THEN <<>>
    ELSE IF "asm" \in DOMAIN s[i]
         THEN <<[ok |-> TRUE, asm |-> s[i].asm, lb |-> s[i].lb]>>
              \o IA32DecodeFrom(s, i + 1)
         ELSE LET x == IA32DecodeAt(s, i)
              IN  <<x>> \o IA32DecodeFrom(s, x.next)

IA32Decode(s) == IA32DecodeFrom(s, 1)

(* the operation an instruction performs, by opcode and ModRM extension *)
IA32Op(x) ==
    CASE "asm" \in DOMAIN x -> x.asm
      [] ~x.ok -> "?"
      [] x.opc \in {<<\h01>>, <<\h03>>} -> "add"
      [] x.opc \in {<<\h09>>, <<\h0B>>} -> "or"
      [] x.opc \in {<<\h21>>, <<\h23>>} -> "and"
      [] x.opc \in {<<\h29>>, <<\h2B>>} -> "sub"
      [] x.opc \in {<<\h31>>, <<\h33>>} -> "xor"
      [] x.opc \in {<<\h39>>, <<\h3B>>} -> "cmp"
      [] x.opc \in {<<\h81>>, <<\h83>>} ->
             <<"add", "or", "adc", "sbb", "and", "sub", "xor", "cmp">>[x.reg + 1]
      [] x.opc \in {<<\h69>>, <<\h6B>>, <<\h0F, \hAF>>} -> "imul"
      [] x.opc \in {<<\h89>>, <<\h8B>>} -> "mov"
      [] x.opc = <<\hC7>> -> IF x.reg = 0 THEN "mov" ELSE "?"
      [] x.opc = <<\h8D>> -> "lea"
      [] x.opc = <<\h8F>> -> IF x.reg = 0 THEN "pop" ELSE "?"
      [] x.opc = <<\hFF>> ->
             <<"inc", "dec", "call", "callf", "jmp", "jmpf", "push", "?">>[x.reg + 1]
      [] x.opc \in {<<\hC1>>, <<\hD3>>} ->
             <<"rol", "ror", "rcl", "rcr", "shl", "shr", "sal", "sar">>[x.reg + 1]
      [] x.opc = <<\hF7>> ->
             <<"test", "test", "not", "neg", "mul", "imul", "div", "idiv">>[x.reg + 1]

IA32Jumps == {"jmp", "jz", "jnz", "je", "jne", "jb", "jbe", "ja", "jae",
              "jl", "jle", "jg", "jge"}

(* the operations that write the arithmetic flags *)
IA32FlagWriters ==
    {"add", "or", "adc", "sbb", "and", "sub", "xor", "cmp", "imul", "inc",
     "dec", "rol", "ror", "rcl", "rcr", "shl", "shr", "sal", "sar", "test",
     "neg", "mul", "div", "idiv"}

(***************************************************************************)
(* The IA-32 processor running built code: eight 32-bit registers, the     *)
(* arithmetic flags and a position in the decoded code.  CMP subtracts its *)
(* second operand from its first and keeps only the flags; a conditional   *)
(* jump reads them.  Subtraction is done on 16-bit halves, so no           *)
(* intermediate value leaves the 32-bit range.                             *)
(***************************************************************************)
Words32 == {0, 1, 2, \h7FFFFFFF, -\h7FFFFFFF - 1, -\h7FFFFFFF, -2, -1}

Lo16(w) == w % 65536

Hi16(w) == (w \div 65536) % 65536

IA32SubFlags(a, b) ==
    LET lo == Lo16(a) - Lo16(b)
        hi == Hi16(a) - Hi16(b) - (IF lo < 0 THEN 1 ELSE 0)
        rneg == (hi % 65536) >= 32768
    IN  [ ZF |-> (lo % 65536 = 0) /\ (hi % 65536 = 0),
          CF |-> hi < 0,
          SF |-> rneg,
          OF |-> ((a < 0) # (b < 0)) /\ (rneg # (a < 0)) ]

IA32Taken(jcc, f) ==
    CASE jcc = "jmp" -> TRUE
      [] jcc \in {"je", "jz"} -> f.ZF
      [] jcc \in {"jne", "jnz"} -> ~f.ZF
      [] jcc = "jb" -> f.CF
      [] jcc = "jbe" -> f.CF \/ f.ZF
      [] jcc = "ja" -> ~f.CF /\ ~f.ZF
      [] jcc = "jae" -> ~f.CF
      [] jcc = "jl" -> f.SF # f.OF
      [] jcc = "jle" -> f.ZF \/ (f.SF # f.OF)
      [] jcc = "jg" -> ~f.ZF /\ (f.SF = f.OF)
      [] jcc = "jge" -> f.SF = f.OF

(* the operands of a two-operand instruction in register-direct form: the  *)
(* opcodes with bit 0x02 take the reg field first, the others r/m first    *)
IA32First(x) == IF (x.opc[1] \div 2) % 2 = 1 THEN x.reg ELSE x.rm

IA32Second(x) == IF (x.opc[1] \div 2) % 2 = 1 THEN x.rm ELSE x.reg

Code == IA32Decode(out)

Running == cpu.arch = "x86" /\ status = "ok" /\ cpu.pc \in 1..Len(Code)

Halted == cpu.arch = "x86" /\ status = "ok" /\ cpu.pc \notin 1..Len(Code)

CompareCodes == DOMAIN CC \ {"EZ_x", "NZ_x"}

LoadCMJ ==
    /\ status = "idle"
    /\ \E RG \in {"Reax", "Rebx"}, RM \in {"Recx", "Rebx"}, cc \in CompareCodes,
          a \in Words32, b \in Words32 :
        LET r == [kind |-> "cmj", form |-> "rr", RG |-> RG, RM |-> RM,
                  cc |-> cc, lb |-> "L1"]
            bt == Build(r)
            regs == [n \in 0..7 |-> IF n = REG(D[RM]) THEN b
                                    ELSE IF n = REG(D[RG]) THEN a ELSE 0]
        IN  /\ req' = r
            /\ out' = bt.out
            /\ status' = bt.status
            /\ cpu' = [arch |-> "x86", regs |-> regs, entry |-> regs,
                       flags |-> [ZF |-> FALSE, CF |-> FALSE,
                                  SF |-> FALSE, OF |-> FALSE],
                       pc |-> 1, target |-> ""]
            /\ UNCHANGED <<Q, RT_512X1>>

ExecCmp ==
    /\ Running
    /\ IA32Op(Code[cpu.pc]) = "cmp"
    /\ Code[cpu.pc].mod = 3
    /\ cpu' = [cpu EXCEPT
                 !.flags = IA32SubFlags(cpu.regs[IA32First(Code[cpu.pc])],
                                        cpu.regs[IA32Second(Code[cpu.pc])]),
                 !.pc = cpu.pc + 1]
    /\ UNCHANGED <<Q, RT_512X1, req, out, status>>

ExecJcc ==
    /\ Running
    /\ IA32Op(Code[cpu.pc]) \in IA32Jumps
    /\ cpu' = IF IA32Taken(Code[cpu.pc].asm, cpu.flags)
              THEN [cpu EXCEPT !.pc = 0, !.target = Code[cpu.pc].lb]
              ELSE [cpu EXCEPT !.pc = cpu.pc + 1]
    /\ UNCHANGED <<Q, RT_512X1, req, out, status>>

InitRun ==
    /\ Q = 1
    /\ RT_512X1 = 0
    /\ req = [kind |-> "none"]
    /\ out = <<>>
    /\ status = "idle"
    /\ cpu = [arch |-> "none"]

NextRun == LoadCMJ \/ ExecCmp \/ ExecJcc

SpecRun == InitRun /\ [][NextRun]_vars

(***************************************************************************)
(* core/rtarch_arm_128.h: NEON rules.  A rule emits 32-bit instruction     *)
(* words.  Register numbers of the BASE unit, its MRM and AUW, the memory  *)
(* descriptors and the displacement class DP come from rtarch_arm.h.       *)
(***************************************************************************)
Word(hi, lo) == (IF hi >= 32768 THEN hi - 65536 ELSE hi) * 65536 + lo

T == [ eax |-> 0, ecx |-> 1, Nxx |-> 4, ebp |-> 5, Ixx |-> 9, Dxx |-> 9,
       Pxx |-> 10 ]

MRM_arm(reg, ren, rem) == Or(Or(Shl(ren, 16), Shl(reg, 12)), rem)

D_arm == [ Oeax |-> <<T.eax, T.eax, EMPTY>>, Mecx |-> <<T.ecx, T.ecx, EMPTY>>,
           Mebp |-> <<T.ebp, T.ebp, EMPTY>> ]

DP_arm(dp) == <<And(dp, \hFFC), 0, 0>>

DH_arm(dp) == <<And(dp, \hFFFC), 1, 1>>

DV_arm(dp) == <<And(dp, \h7FFFFFFC), 2, 2>>

PLAIN_arm == <<0, 0, 0>>

(* 32-bit shift left and addition, the result as a signed 32-bit number *)
Shl32(a, n) ==
    LET u == a % Pow2(32 - n)
    IN  (IF u >= Pow2(31 - n) THEN u - Pow2(32 - n) ELSE u) * Pow2(n)

Add32(a, b) ==
    LET lo == (a % 65536) + (b % 65536)
        hi == (a \div 65536) + (b \div 65536) + (lo \div 65536)
    IN  (((hi + 32768) % 65536) - 32768) * 65536 + (lo % 65536)

MXM(reg, ren, rem) ==
    Or(Or(Or(And(rem, \h0F), Shl(And(rem, \h10), 1)),
          Or(Shl(And(ren, \h0F), 16), Shl(And(ren, \h10), 3))),
       Or(Shl(And(reg, \h0F), 12), Shl(And(reg, \h10), 18)))

(* the selectors B2, P2, C2 resolved by the SIMD displacement type of DS *)
B2(DS, br) == br

P2(DS, dp) ==
    IF DS[3] = 0 THEN Or(Word(\h0200, \h0E00), And(dp \div 16, \hFF))
    ELSE Or(0, T.Dxx)

C21(br, dp) ==
    EMITW(Or(Or(Or(Word(\hE300, 0), MRM_arm(T.Dxx, 0, 0)),
                And(\hF0000, Shl32(dp, 4))),
             And(\hFF0, dp)))

(* the displacement of type 2 loaded without its upper half *)
C2_upper_half_dropped(DS, br, dp) ==
    CASE DS[3] = 0 -> EMPTY
      [] DS[3] \in {1, 2} -> C21(br, dp)

C2(DS, br, dp) ==
    CASE DS[3] = 0 -> EMPTY
      [] DS[3] = 1 -> C21(br, dp)
      [] DS[3] = 2 ->
             C21(br, dp)
             \o EMITW(Or(Or(Or(Word(\hE340, 0), MRM_arm(T.Dxx, 0, 0)),
                            And(\h70000, dp \div 4096)),
                         And(\hFFF, dp \div 65536)))

MPM(reg, brm, vdp, DS) == Or(Or(Shl(B2(DS, brm), 16), Shl(reg, 12)), P2(DS, vdp))

AUW(sib, brm, vdp, DS) == sib \o C2(DS, brm, vdp)

TmmM == 16

Xmm_arm == [n \in 0..7 |-> <<2 * n, 0, EMPTY>>]

Xmm0 == Xmm_arm[0]

movox_st(XS, MD, DD) ==
    AUW(SIB(MD), MOD(MD), VAL(DD), DD)
    \o EMITW(Or(Word(\hE080, 0), MPM(T.Pxx, MOD(MD), VAL(DD), DD)))
    \o EMITW(Or(Word(\hF400, \h0AAF), MXM(REG(XS), T.Pxx, 0)))

andox_rr(XG, XS) ==
    EMITW(Or(Word(\hF200, \h0150), MXM(REG(XG), REG(XG), REG(XS))))

annox_ld(XG, MS, DS) ==
    AUW(SIB(MS), MOD(MS), VAL(DS), DS)
    \o EMITW(Or(Word(\hE080, 0), MPM(T.Pxx, MOD(MS), VAL(DS), DS)))
    \o EMITW(Or(Word(\hF420, \h0AAF), MXM(TmmM, T.Pxx, 0)))
    \o EMITW(Or(Word(\hF210, \h0150), MXM(REG(XG), TmmM, REG(XG))))

orrox_rr(XG, XS) ==
    EMITW(Or(Word(\hF220, \h0150), MXM(REG(XG), REG(XG), REG(XS))))

notox_rx(XG) ==
    EMITW(Or(Word(\hF3B0, \h05C0), MXM(REG(XG), 0, REG(XG))))

movox_ld(XD, MS, DS) ==
    AUW(SIB(MS), MOD(MS), VAL(DS), DS)
    \o EMITW(Or(Word(\hE080, 0), MPM(T.Pxx, MOD(MS), VAL(DS), DS)))
    \o EMITW(Or(Word(\hF420, \h0AAF), MXM(REG(XD), T.Pxx, 0)))

(* the scratch slot of the info block addressed by Mebp *)
inf_SCR01_arm(nx) == DP_arm(\h10 + nx)

TmmC == 18

TmmD == 20

TmmE == 22

TmmF == 24

(* fma and fms of RT_128 < 2 with RT_SIMD_COMPAT_FMA = 1, RT_SIMD_COMPAT_FMS *)
(* = 1: four words that widen the lanes of X into the register at offset   *)
(* k of each scratch pair, four that combine the pairs, four that narrow    *)
fma_widen(k, X) ==
    EMITW(Or(Word(\hEEB7, \h0AC0), MXM(TmmC + k, 0, REG(X) + 0)))
    \o EMITW(Or(Word(\hEEB7, \h0AE0), MXM(TmmD + k, 0, REG(X) + 0)))
    \o EMITW(Or(Word(\hEEB7, \h0AC0), MXM(TmmE + k, 0, REG(X) + 1)))
    \o EMITW(Or(Word(\hEEB7, \h0AE0), MXM(TmmF + k, 0, REG(X) + 1)))

fma_scalar(opc, d, n) ==
    EMITW(Or(opc, MXM(TmmC + d, TmmC + d, TmmC + n)))
    \o EMITW(Or(opc, MXM(TmmD + d, TmmD + d, TmmD + n)))
    \o EMITW(Or(opc, MXM(TmmE + d, TmmE + d, TmmE + n)))
    \o EMITW(Or(opc, MXM(TmmF + d, TmmF + d, TmmF + n)))

fma_narrow(XG) ==
    EMITW(Or(Word(\hEEB7, \h0BC0), MXM(REG(XG) + 0, 0, TmmC + 1)))
    \o EMITW(Or(Word(\hEEF7, \h0BC0), MXM(REG(XG) + 0, 0, TmmD + 1)))
    \o EMITW(Or(Word(\hEEB7, \h0BC0), MXM(REG(XG) + 1, 0, TmmE + 1)))
    \o EMITW(Or(Word(\hEEF7, \h0BC0), MXM(REG(XG) + 1, 0, TmmF + 1)))

fmaos_rr(XG, XS, XT) ==
    fma_widen(0, XS) \o fma_widen(1, XT)
    \o fma_scalar(Word(\hEE20, \h0B00), 0, 1)
    \o fma_widen(1, XG)
    \o fma_scalar(Word(\hEE30, \h0B00), 1, 0)
    \o fma_narrow(XG)

fmaos_ld(XG, XS, MT, DT) ==
    fma_widen(0, XS)
    \o movox_st(XS, D_arm.Mebp, inf_SCR01_arm(0))
    \o movox_ld(XS, MT, DT)
    \o fma_widen(1, XS)
    \o fma_scalar(Word(\hEE20, \h0B00), 0, 1)
    \o fma_widen(1, XG)
    \o fma_scalar(Word(\hEE30, \h0B00), 1, 0)
    \o fma_narrow(XG)
    \o movox_ld(XS, D_arm.Mebp, inf_SCR01_arm(0))

fmsos_rr(XG, XS, XT) ==
    fma_widen(0, XS) \o fma_widen(1, XT)
    \o fma_scalar(Word(\hEE20, \h0B00), 0, 1)
    \o fma_widen(1, XG)
    \o fma_scalar(Word(\hEE30, \h0B40), 1, 0)
    \o fma_narrow(XG)

(* the build configuration of the ARM table: the NEON revision and the     *)
(* compatibility flags                                                     *)
ARMConfigs ==
    [RT_128 : {1, 2, 4}, DIV : {0, 1, 2}, SQR : {0, 1, 2}, RCP : {0, 1, 2},
     RSQ : {0, 1, 2}, FMA : {0, 1, 2}, FMS : {0, 1, 2}, FLUSH_ZERO : {0, 1},
     FAST_FCTRL : {0, 1}]

V(X) == <<And(REG(X) + 2, \h0F), MOD(X), SIB(X)>>

(* div (G = G / S) and sqr (D = sqrt S) under the configuration cfg *)
divos_rr(cfg, XG, XS) ==
    IF cfg.DIV = 1
    THEN EMITW(Or(Word(\hEE80, \h0A00), MXM(REG(XG) + 0, REG(XG) + 0, REG(XS) + 0)))
         \o EMITW(Or(Word(\hEEC0, \h0AA0), MXM(REG(XG) + 0, REG(XG) + 0, REG(XS) + 0)))
         \o EMITW(Or(Word(\hEE80, \h0A00), MXM(REG(XG) + 1, REG(XG) + 1, REG(XS) + 1)))
         \o EMITW(Or(Word(\hEEC0, \h0AA0), MXM(REG(XG) + 1, REG(XG) + 1, REG(XS) + 1)))
    ELSE IF cfg.RT_128 < 2
    THEN EMITW(Or(Word(\hF3BB, \h0540), MXM(TmmM, 0, REG(XS))))
         \o EMITW(Or(Word(\hF200, \h0F50), MXM(TmmC, TmmM, REG(XS))))
         \o EMITW(Or(Word(\hF300, \h0D50), MXM(TmmM, TmmM, TmmC)))
         \o EMITW(Or(Word(\hF200, \h0F50), MXM(TmmC, TmmM, REG(XS))))
         \o EMITW(Or(Word(\hF300, \h0D50), MXM(TmmM, TmmM, TmmC)))
         \o EMITW(Or(Word(\hF200, \h0F50), MXM(TmmC, TmmM, REG(XS))))
         \o EMITW(Or(Word(\hF300, \h0D50), MXM(TmmM, TmmM, TmmC)))
         \o EMITW(Or(Word(\hF300, \h0D50), MXM(TmmC, REG(XG), TmmM)))
         \o EMITW(Or(Word(\hF220, \h0D50), MXM(REG(XG), REG(XS), TmmC)))
         \o EMITW(Or(Word(\hF200, \h0D50), MXM(TmmC, REG(XG), TmmM)))
         \o EMITW(Or(Word(\hF220, \h0150), MXM(REG(XG), TmmC, TmmC)))
    ELSE EMITW(Or(Word(\hF3BB, \h0540), MXM(TmmM, 0, REG(XS))))
         \o EMITW(Or(Word(\hF200, \h0F50), MXM(TmmC, TmmM, REG(XS))))
         \o EMITW(Or(Word(\hF300, \h0D50), MXM(TmmM, TmmM, TmmC)))
         \o EMITW(Or(Word(\hF300, \h0D50), MXM(TmmC, REG(XG), TmmM)))
         \o EMITW(Or(Word(\hF220, \h0C50), MXM(REG(XG), REG(XS), TmmC)))
         \o EMITW(Or(Word(\hF200, \h0C50), MXM(TmmC, REG(XG), TmmM)))
         \o EMITW(Or(Word(\hF220, \h0150), MXM(REG(XG), TmmC, TmmC)))

(* divos_ld when the one Newton-Raphson step of RT_128 >= 2 is emitted     *)
(* under every revision                                                    *)
divos_ld_one_step(cfg, XG, MS, DS) ==
    AUW(SIB(MS), MOD(MS), VAL(DS), DS)
    \o EMITW(Or(Word(\hE080, 0), MPM(T.Pxx, MOD(MS), VAL(DS), DS)))
    \o EMITW(Or(Word(\hF420, \h0AAF), MXM(TmmD, T.Pxx, 0)))
    \o EMITW(Or(Word(\hF3BB, \h0540), MXM(TmmM, 0, TmmD)))
    \o EMITW(Or(Word(\hF200, \h0F50), MXM(TmmC, TmmM, TmmD)))
    \o EMITW(Or(Word(\hF300, \h0D50), MXM(TmmM, TmmM, TmmC)))
    \o EMITW(Or(Word(\hF300, \h0D50), MXM(TmmC, REG(XG), TmmM)))
    \o EMITW(Or(Word(\hF220, \h0C50), MXM(REG(XG), TmmD, TmmC)))
    \o EMITW(Or(Word(\hF200, \h0C50), MXM(TmmC, REG(XG), TmmM)))
    \o EMITW(Or(Word(\hF220, \h0150), MXM(REG(XG), TmmC, TmmC)))

(* divos_ld with the scratch cell addressed from the operand's base *)
divos_ld_scratch_beside_operand(cfg, XG, MS, DS) ==
    movox_st(V(XG), MS, inf_SCR01_arm(0))
    \o movox_ld(V(XG), MS, DS)
    \o divos_rr(cfg, XG, V(XG))
    \o movox_ld(V(XG), MS, inf_SCR01_arm(0))

divos_ld(cfg, XG, MS, DS) ==
    IF cfg.DIV = 1
    THEN movox_st(V(XG), D_arm.Mebp, inf_SCR01_arm(0))
         \o movox_ld(V(XG), MS, DS)
         \o divos_rr(cfg, XG, V(XG))
         \o movox_ld(V(XG), D_arm.Mebp, inf_SCR01_arm(0))
    ELSE IF cfg.RT_128 < 2
    THEN AUW(SIB(MS), MOD(MS), VAL(DS), DS)
         \o EMITW(Or(Word(\hE080, 0), MPM(T.Pxx, MOD(MS), VAL(DS), DS)))
         \o EMITW(Or(Word(\hF420, \h0AAF), MXM(TmmD, T.Pxx, 0)))
         \o EMITW(Or(Word(\hF3BB, \h0540), MXM(TmmM, 0, TmmD)))
         \o EMITW(Or(Word(\hF200, \h0F50), MXM(TmmC, TmmM, TmmD)))
         \o EMITW(Or(Word(\hF300, \h0D50), MXM(TmmM, TmmM, TmmC)))
         \o EMITW(Or(Word(\hF200, \h0F50), MXM(TmmC, TmmM, TmmD)))
         \o EMITW(Or(Word(\hF300, \h0D50), MXM(TmmM, TmmM, TmmC)))
         \o EMITW(Or(Word(\hF200, \h0F50), MXM(TmmC, TmmM, TmmD)))
         \o EMITW(Or(Word(\hF300, \h0D50), MXM(TmmM, TmmM, TmmC)))
         \o EMITW(Or(Word(\hF300, \h0D50), MXM(TmmC, REG(XG), TmmM)))
         \o EMITW(Or(Word(\hF220, \h0D50), MXM(REG(XG), TmmD, TmmC)))
         \o EMITW(Or(Word(\hF200, \h0D50), MXM(TmmC, REG(XG), TmmM)))
         \o EMITW(Or(Word(\hF220, \h0150), MXM(REG(XG), TmmC, TmmC)))
    ELSE AUW(SIB(MS), MOD(MS), VAL(DS), DS)
         \o EMITW(Or(Word(\hE080, 0), MPM(T.Pxx, MOD(MS), VAL(DS), DS)))
         \o EMITW(Or(Word(\hF420, \h0AAF), MXM(TmmD, T.Pxx, 0)))
         \o EMITW(Or(Word(\hF3BB, \h0540), MXM(TmmM, 0, TmmD)))
         \o EMITW(Or(Word(\hF200, \h0F50), MXM(TmmC, TmmM, TmmD)))
         \o EMITW(Or(Word(\hF300, \h0D50), MXM(TmmM, TmmM, TmmC)))
         \o EMITW(Or(Word(\hF300, \h0D50), MXM(TmmC, REG(XG), TmmM)))
         \o EMITW(Or(Word(\hF220, \h0C50), MXM(REG(XG), TmmD, TmmC)))
         \o EMITW(Or(Word(\hF200, \h0C50), MXM(TmmC, REG(XG), TmmM)))
         \o EMITW(Or(Word(\hF220, \h0150), MXM(REG(XG), TmmC, TmmC)))

sqros_rr(cfg, XD, XS) ==
    IF cfg.SQR = 1
    THEN EMITW(Or(Word(\hEEB1, \h0AC0), MXM(REG(XD) + 0, 0, REG(XS) + 0)))
         \o EMITW(Or(Word(\hEEF1, \h0AE0), MXM(REG(XD) + 0, 0, REG(XS) + 0)))
         \o EMITW(Or(Word(\hEEB1, \h0AC0), MXM(REG(XD) + 1, 0, REG(XS) + 1)))
         \o EMITW(Or(Word(\hEEF1, \h0AE0), MXM(REG(XD) + 1, 0, REG(XS) + 1)))
    ELSE EMITW(Or(Word(\hF3BB, \h05C0), MXM(TmmM, 0, REG(XS))))
         \o EMITW(Or(Word(\hF300, \h0D50), MXM(TmmC, TmmM, TmmM)))
         \o EMITW(Or(Word(\hF220, \h0F50), MXM(TmmC, TmmC, REG(XS))))
         \o EMITW(Or(Word(\hF300, \h0D50), MXM(TmmM, TmmM, TmmC)))
         \o EMITW(Or(Word(\hF300, \h0D50), MXM(TmmC, TmmM, TmmM)))
         \o EMITW(Or(Word(\hF220, \h0F50), MXM(TmmC, TmmC, REG(XS))))
         \o EMITW(Or(Word(\hF300, \h0D50), MXM(TmmM, TmmM, TmmC)))
         \o EMITW(Or(Word(\hF300, \h0D50), MXM(REG(XD), REG(XS), TmmM)))

sqros_ld(cfg, XD, MS, DS) ==
    IF cfg.SQR = 1
    THEN movox_ld(XD, MS, DS) \o sqros_rr(cfg, XD, XD)
    ELSE AUW(SIB(MS), MOD(MS), VAL(DS), DS)
         \o EMITW(Or(Word(\hE080, 0), MPM(T.Pxx, MOD(MS), VAL(DS), DS)))
         \o EMITW(Or(Word(\hF420, \h0AAF), MXM(TmmD, T.Pxx, 0)))
         \o EMITW(Or(Word(\hF3BB, \h05C0), MXM(TmmM, 0, TmmD)))
         \o EMITW(Or(Word(\hF300, \h0D50), MXM(TmmC, TmmM, TmmM)))
         \o EMITW(Or(Word(\hF220, \h0F50), MXM(TmmC, TmmC, TmmD)))
         \o EMITW(Or(Word(\hF300, \h0D50), MXM(TmmM, TmmM, TmmC)))
         \o EMITW(Or(Word(\hF300, \h0D50), MXM(TmmC, TmmM, TmmM)))
         \o EMITW(Or(Word(\hF220, \h0F50), MXM(TmmC, TmmC, TmmD)))
         \o EMITW(Or(Word(\hF300, \h0D50), MXM(TmmM, TmmM, TmmC)))
         \o EMITW(Or(Word(\hF300, \h0D50), MXM(REG(XD), TmmD, TmmM)))

(* rcp and rsq: the estimate and one refinement step *)
rceos_rr(cfg, XD, XS) ==
    IF cfg.RCP # 1
    THEN EMITW(Or(Word(\hF3BB, \h0540), MXM(REG(XD), 0, REG(XS))))
    ELSE <<[undef |-> "rceos_rr"]>>

rcsos_rr(cfg, XG, XS) ==
    IF cfg.RCP # 1
    THEN EMITW(Or(Word(\hF200, \h0F50), MXM(REG(XS), REG(XS), REG(XG))))
         \o EMITW(Or(Word(\hF300, \h0D50), MXM(REG(XG), REG(XG), REG(XS))))
    ELSE <<[undef |-> "rcsos_rr"]>>

rseos_rr(cfg, XD, XS) ==
    IF cfg.RSQ # 1
    THEN EMITW(Or(Word(\hF3BB, \h05C0), MXM(REG(XD), 0, REG(XS))))
    ELSE <<[undef |-> "rseos_rr"]>>

(* the step of rssos_rr without its first multiply by the estimate *)
rssos_rr_one_multiply(cfg, XG, XS) ==
    EMITW(Or(Word(\hF220, \h0F50), MXM(REG(XS), REG(XS), REG(XG))))
    \o EMITW(Or(Word(\hF300, \h0D50), MXM(REG(XG), REG(XG), REG(XS))))

rssos_rr(cfg, XG, XS) ==
    IF cfg.RSQ # 1
    THEN EMITW(Or(Word(\hF300, \h0D50), MXM(REG(XS), REG(XS), REG(XG))))
         \o EMITW(Or(Word(\hF220, \h0F50), MXM(REG(XS), REG(XS), REG(XG))))
         \o EMITW(Or(Word(\hF300, \h0D50), MXM(REG(XG), REG(XG), REG(XS))))
    ELSE <<[undef |-> "rssos_rr"]>>

(* the merge without the complement of the mask: the variant C8 must tell  *)
(* from mmvox_ld                                                           *)
mmvox_ld_mask_kept(XG, MS, DS) ==
    andox_rr(XG, Xmm0) \o annox_ld(Xmm0, MS, DS) \o orrox_rr(XG, Xmm0)

mmvox_ld(XG, MS, DS) ==
    notox_rx(Xmm0) \o andox_rr(XG, Xmm0) \o annox_ld(Xmm0, MS, DS)
    \o orrox_rr(XG, Xmm0)

mmvox_st(XS, MG, DG_) ==
    andox_rr(XS, Xmm0) \o annox_ld(Xmm0, MG, DG_) \o orrox_rr(Xmm0, XS)
    \o movox_st(Xmm0, MG, DG_)

(* rounding modes and the rules that reprogram the control register;       *)
(* FCTRL_ENTER and FCTRL_LEAVE are the blocks of rtbase.h: set the mode,   *)
(* reset it                                                                *)
RT_SIMD_MODE == [ ROUNDN |-> 0, ROUNDM |-> 2, ROUNDP |-> 1, ROUNDZ |-> 3 ]

FCTRL_SET(mode, fast) ==
    IF fast = 0
    THEN EMITW(Or(Or(Word(\hE3A0, \h0500), MRM_arm(T.Ixx, 0, 0)),
                  RT_SIMD_MODE[mode]))
         \o EMITW(Or(Word(\hEEE1, \h0A10), MRM_arm(T.Ixx, 0, 0)))
    ELSE EMITW(Or(Word(\hEEE1, \h0A10),
                  MRM_arm(And(RT_SIMD_MODE[mode], 3) * 2 + 8, 0, 0)))

(* the block left without a reset: the variant C9 must tell from           *)
(* FCTRL_RESET                                                             *)
FCTRL_RESET_omitted == EMPTY

FCTRL_RESET == EMITW(Or(Word(\hEEE1, \h0A10), MRM_arm(T.Nxx, 0, 0)))

FCTRL_ENTER(mode, fast) == FCTRL_SET(mode, fast)

FCTRL_LEAVE(mode) == FCTRL_RESET

cvtos_rr(XD, XS) ==
    EMITW(Or(Word(\hEEBD, \h0A40), MXM(REG(XD) + 0, 0, REG(XS) + 0)))
    \o EMITW(Or(Word(\hEEFD, \h0A60), MXM(REG(XD) + 0, 0, REG(XS) + 0)))
    \o EMITW(Or(Word(\hEEBD, \h0A40), MXM(REG(XD) + 1, 0, REG(XS) + 1)))
    \o EMITW(Or(Word(\hEEFD, \h0A60), MXM(REG(XD) + 1, 0, REG(XS) + 1)))

cvros_rr(XD, XS, mode, fast) ==
    FCTRL_ENTER(mode, fast) \o cvtos_rr(XD, XS) \o FCTRL_LEAVE(mode)

cvpos_rr(XD, XS, fast) ==
    FCTRL_ENTER("ROUNDP", fast) \o cvtos_rr(XD, XS) \o FCTRL_LEAVE("ROUNDP")

cvmos_rr(XD, XS, fast) ==
    FCTRL_ENTER("ROUNDM", fast) \o cvtos_rr(XD, XS) \o FCTRL_LEAVE("ROUNDM")

(***************************************************************************)
(* The ARM processor running built code: the NEON registers by D-register  *)
(* number of their low half, the core registers, memory and the FPSCR.     *)
(* A NEON register or a memory cell holds LaneBits bits: the logic         *)
(* instructions act on every bit alone.  used lists the rounding mode      *)
(* under which each conversion ran.  The decoder is written from the       *)
(* instruction set reference.                                              *)
(***************************************************************************)
LaneBits == 2

Lanes == 0..(Pow2(LaneBits) - 1)

VNot(v) == (Pow2(LaneBits) - 1) - v

Bits(w, k, n) == (w \div Pow2(k)) % Pow2(n)

ARMBase(n) == 256 * (n + 1)

ARMAddrs == {ARMBase(n) + 16 * k : n \in {T.eax, T.ecx, T.ebp}, k \in 0..1}

(* ARM modified immediate: imm8 rotated right by twice rot *)
ARMImm(w) ==
    IF Bits(w, 8, 4) = 0 THEN Bits(w, 0, 8)
    ELSE Bits(w, 0, 8) * Pow2(32 - 2 * Bits(w, 8, 4))

ARMVd(w) == Bits(w, 22, 1) * 16 + Bits(w, 12, 4)

ARMVn(w) == Bits(w, 7, 1) * 16 + Bits(w, 16, 4)

ARMVm(w) == Bits(w, 5, 1) * 16 + Bits(w, 0, 4)

ARMClass(w) ==
    CASE Bits(w, 25, 7) = \h79 /\ Bits(w, 23, 1) = 0 /\ Bits(w, 8, 4) = 1
         /\ Bits(w, 4, 1) = 1 /\ Bits(w, 6, 1) = 1 ->
             (IF Bits(w, 24, 1) = 0
              THEN <<"vand", "vbic", "vorr", "vorn">>[Bits(w, 20, 2) + 1]
              ELSE <<"veor", "vbsl", "vbit", "vbif">>[Bits(w, 20, 2) + 1])
      [] Bits(w, 23, 9) = \h1E7 /\ Bits(w, 16, 6) = \h30
         /\ Bits(w, 7, 5) = \h0B /\ Bits(w, 4, 1) = 0 -> "vmvn"
      [] Bits(w, 24, 8) = \hF4 /\ Bits(w, 23, 1) = 0 /\ Bits(w, 8, 4) = \h0A
         /\ Bits(w, 0, 4) = \h0F ->
             (IF Bits(w, 21, 1) = 1 THEN "vld1" ELSE "vst1")
      [] Bits(w, 23, 9) = \h1DD /\ Bits(w, 16, 6) = \h37 /\ Bits(w, 9, 3) = 5
         /\ Bits(w, 6, 2) = 3 /\ Bits(w, 4, 1) = 0 ->
             (IF Bits(w, 8, 1) = 0 THEN "vcvt_ds" ELSE "vcvt_sd")
      [] Bits(w, 23, 9) = \h1DC /\ Bits(w, 8, 4) = \h0B /\ Bits(w, 4, 1) = 0
         /\ Bits(w, 20, 2) >= 2 /\ (Bits(w, 20, 2) = 3 \/ Bits(w, 6, 1) = 0) ->
             (IF Bits(w, 20, 2) = 2 THEN "vmul_d"
              ELSE IF Bits(w, 6, 1) = 0 THEN "vadd_d" ELSE "vsub_d")
      [] Bits(w, 25, 7) = \h79 /\ Bits(w, 23, 1) = 0 /\ Bits(w, 20, 1) = 0
         /\ Bits(w, 8, 4) \in {\h0C, \h0D, \h0F} /\ Bits(w, 4, 1) = 1
         /\ Bits(w, 6, 1) = 1 /\ (Bits(w, 24, 1) = 0 \/ Bits(w, 8, 4) = \h0D) ->
             (CASE Bits(w, 8, 4) = \h0F ->
                       (IF Bits(w, 21, 1) = 0 THEN "vrecps" ELSE "vrsqrts")
                [] Bits(w, 8, 4) = \h0C ->
                       (IF Bits(w, 21, 1) = 0 THEN "vfma" ELSE "vfms")
                [] Bits(w, 24, 1) = 1 ->
                       (IF Bits(w, 21, 1) = 0 THEN "vmul" ELSE "?")
                [] OTHER -> (IF Bits(w, 21, 1) = 0 THEN "vmla" ELSE "vmls"))
      [] Bits(w, 23, 9) = \h1E7 /\ Bits(w, 16, 6) = \h3B
         /\ Bits(w, 8, 4) = 5 /\ Bits(w, 6, 1) = 1 /\ Bits(w, 4, 1) = 0 ->
             (IF Bits(w, 7, 1) = 0 THEN "vrecpe" ELSE "vrsqrte")
      [] Bits(w, 23, 9) = \h1DD /\ Bits(w, 20, 2) = 0 /\ Bits(w, 9, 3) = 5
         /\ Bits(w, 8, 1) = 0 /\ Bits(w, 6, 1) = 0 /\ Bits(w, 4, 1) = 0 -> "vdiv"
      [] Bits(w, 23, 9) = \h1DD /\ Bits(w, 16, 6) = \h31 /\ Bits(w, 9, 3) = 5
         /\ Bits(w, 8, 1) = 0 /\ Bits(w, 6, 2) = 3 /\ Bits(w, 4, 1) = 0 -> "vsqrt"
      [] Bits(w, 20, 12) = \hE28 -> "add"
      [] Bits(w, 20, 12) = \hE08 /\ Bits(w, 4, 8) = 0 -> "add_r"
      [] Bits(w, 20, 12) = \hE30 -> "movw"
      [] Bits(w, 20, 12) = \hE34 -> "movt"
      [] Bits(w, 20, 12) = \hE3A -> "mov"
      [] Bits(w, 16, 16) = \hEEE1 /\ Bits(w, 0, 12) = \hA10 -> "vmsr"
      [] Bits(w, 24, 8) = \hEE /\ Bits(w, 23, 1) = 1 /\ Bits(w, 16, 6) = \h3D
         /\ Bits(w, 8, 4) = \h0A /\ Bits(w, 6, 2) = 1 /\ Bits(w, 4, 1) = 0 ->
             "vcvtr"
      [] OTHER -> "?"

(* floating-point values: a format and a number small enough to be exact   *)
(* in both formats; a conversion changes the format and keeps the number   *)
F32(v) == <<"f32", v>>

F64(v) == <<"f64", v>>

F64Of(x) == IF x[1] = "f32" THEN F64(x[2]) ELSE <<"nan", R(0)>>

F32Of(x) == IF x[1] = "f64" THEN F32(x[2]) ELSE <<"nan", R(0)>>

(* a single-precision operation on the four lanes of NEON quad registers   *)
ARMQuad(c, d, Op(_, _), n, m) ==
    [j \in 0..31 |->
        IF j \div 4 = d \div 2
        THEN F32(Op(c.s[2 * n + (j % 4)][2], c.s[2 * m + (j % 4)][2]))
        ELSE c.s[j]]

ARMStep(c, w) ==
    LET k == ARMClass(w)
        d == ARMVd(w)
        n == ARMVn(w)
        m == ARMVm(w)
        rn == Bits(w, 16, 4)
        rd == Bits(w, 12, 4)
        nx == [c EXCEPT !.pc = c.pc + 4]
    IN  CASE k = "vand" -> [nx EXCEPT !.q[d] = And(c.q[n], c.q[m])]
          [] k = "vbic" -> [nx EXCEPT !.q[d] = And(c.q[n], VNot(c.q[m]))]
          [] k = "vorr" -> [nx EXCEPT !.q[d] = Or(c.q[n], c.q[m])]
          [] k = "vmvn" -> [nx EXCEPT !.q[d] = VNot(c.q[m])]
          [] k = "vld1" ->
                 [nx EXCEPT !.q[d] = c.mem[c.r[rn]],
                            !.s = [j \in 0..31 |->
                                     IF j \div 4 = d \div 2
                                     THEN c.mems[c.r[rn]][j % 4] ELSE c.s[j]]]
          [] k = "vst1" ->
                 [nx EXCEPT !.mem[c.r[rn]] = c.q[d],
                            !.mems[c.r[rn]] =
                                IF d < 16 THEN [j \in 0..3 |-> c.s[2 * d + j]]
                                ELSE c.mems[c.r[rn]]]
          [] k = "vcvt_ds" ->
                 [nx EXCEPT !.dd[d] = F64Of(c.s[2 * Bits(w, 0, 4) + Bits(w, 5, 1)])]
          [] k = "vcvt_sd" ->
                 [nx EXCEPT !.s[2 * Bits(w, 12, 4) + Bits(w, 22, 1)] = F32Of(c.dd[m])]
          [] k = "vmul_d" -> [nx EXCEPT !.dd[d] = F64(RMul(c.dd[n][2], c.dd[m][2]))]
          [] k = "vadd_d" -> [nx EXCEPT !.dd[d] = F64(RAdd(c.dd[n][2], c.dd[m][2]))]
          [] k = "vsub_d" -> [nx EXCEPT !.dd[d] = F64(RSub(c.dd[n][2], c.dd[m][2]))]
          [] k = "vrecps" ->
                 [nx EXCEPT !.s = ARMQuad(c, d, LAMBDA x, y :
                                              RSub(R(2), RMul(x, y)), n, m)]
          [] k = "vrsqrts" ->
                 [nx EXCEPT !.s = ARMQuad(c, d, LAMBDA x, y :
                                              RMul(RSub(R(3), RMul(x, y)), RHalf),
                                          n, m)]
          [] k = "vmul" ->
                 [nx EXCEPT !.s = ARMQuad(c, d, LAMBDA x, y : RMul(x, y), n, m)]
          [] k = "vdiv" ->
                 (LET sd == 2 * Bits(w, 12, 4) + Bits(w, 22, 1)
                      sn == 2 * Bits(w, 16, 4) + Bits(w, 7, 1)
                      sm == 2 * Bits(w, 0, 4) + Bits(w, 5, 1)
                  IN  [nx EXCEPT !.s[sd] =
                          IF c.s[sn][1] = "f32" /\ c.s[sm][1] = "f32"
                             /\ RIsPow2(c.s[sm][2])
                          THEN F32(RDiv(c.s[sn][2], c.s[sm][2]))
                          ELSE <<"nan", R(0)>>])
          [] k = "add" -> [nx EXCEPT !.r[rd] = Add32(c.r[rn], ARMImm(w))]
          [] k = "add_r" -> [nx EXCEPT !.r[rd] = Add32(c.r[rn], c.r[Bits(w, 0, 4)])]
          [] k = "movw" -> [nx EXCEPT !.r[rd] = Bits(w, 16, 4) * 4096 + Bits(w, 0, 12)]
          [] k = "movt" ->
                 [nx EXCEPT !.r[rd] =
                     Add32(c.r[rd] % 65536,
                           Shl32(Bits(w, 16, 4) * 4096 + Bits(w, 0, 12), 16))]
          [] k = "mov" -> [nx EXCEPT !.r[rd] = ARMImm(w)]
          [] k = "vmsr" -> [nx EXCEPT !.fpscr = c.r[rd]]
          [] k = "vcvtr" -> [nx EXCEPT !.used = Append(c.used, Bits(c.fpscr, 22, 2))]

ARMEntry(c) == [q |-> c.q, mem |-> c.mem, fpscr |-> c.fpscr, s |-> c.s,
                mems |-> c.mems]

(* the core registers at the start of a code block: the bases of the       *)
(* memory descriptors, the default mode in TNxx and, for the fast variant, *)
(* the four modes in r8, r10, r12, r14                                     *)
NoLanes == [j \in 0..31 |-> F32(R(0))]

NoCells == [a \in ARMAddrs |-> [j \in 0..3 |-> F32(R(0))]]

ARMRegs(fast) ==
    [n \in 0..15 |->
        CASE n \in {T.eax, T.ecx, T.ebp} -> ARMBase(n)
          [] n = T.Nxx -> Shl(RT_SIMD_MODE.ROUNDN, 22)
          [] fast = 1 /\ n \in {8, 10, 12, 14} -> Shl((n - 8) \div 2, 22)
          [] OTHER -> 0]

LoadARM(r, code, mark, q0, mem0, s0, mems0) ==
    LET c == [arch |-> "arm", q |-> q0, r |-> ARMRegs(r.fast), mem |-> mem0,
              s |-> s0, dd |-> [n \in 16..31 |-> F64(R(0))], mems |-> mems0,
              fpscr |-> Shl(RT_SIMD_MODE.ROUNDN, 22), used |-> <<>>,
              pc |-> 1, mark |-> mark]
    IN  /\ req' = r
        /\ out' = code
        /\ status' = "ok"
        /\ cpu' = c @@ [entry |-> ARMEntry(c)]
        /\ UNCHANGED <<Q, RT_512X1>>

DispOf(M) == IF M = "Oeax" THEN PLAIN_arm ELSE DP_arm(\h10)

LoadMMV ==
    /\ status = "idle"
    /\ \E op \in {"mmvox_ld", "mmvox_st"}, X \in 0..2, M \in DOMAIN D_arm,
          mask \in Lanes, x \in Lanes, m \in Lanes :
        LoadARM([kind |-> "mmv", op |-> op, X |-> X, M |-> M, fast |-> 0],
                IF op = "mmvox_ld"
                THEN mmvox_ld(Xmm_arm[X], D_arm[M], DispOf(M))
                ELSE mmvox_st(Xmm_arm[X], D_arm[M], DispOf(M)),
                1,
                [i \in 0..31 |-> IF i = REG(Xmm0) THEN mask
                                 ELSE IF i = REG(Xmm_arm[X]) THEN x ELSE 0],
                [a \in ARMAddrs |->
                    IF a = ARMBase(MOD(D_arm[M])) + VAL(DispOf(M)) THEN m
                    ELSE VNot(m)],
                NoLanes, NoCells)

LoadCVT ==
    /\ status = "idle"
    /\ \E op \in {"cvpos_rr", "cvmos_rr", "cvros_rr"}, mode \in DOMAIN RT_SIMD_MODE,
          before \in {"none"} \cup DOMAIN RT_SIMD_MODE, fast \in {0, 1},
          XD \in 0..1, XS \in 1..2 :
        LET block == IF before = "none" THEN EMPTY ELSE FCTRL_SET(before, fast)
            XD_ == Xmm_arm[XD]
            XS_ == Xmm_arm[XS]
        IN  /\ op = "cvros_rr" \/ mode = "ROUNDN"
            /\ LoadARM([kind |-> "cvt", op |-> op, mode |-> mode,
                         before |-> before, fast |-> fast, XD |-> XD, XS |-> XS],
                        block \o (CASE op = "cvpos_rr" -> cvpos_rr(XD_, XS_, fast)
                                    [] op = "cvmos_rr" -> cvmos_rr(XD_, XS_, fast)
                                    [] op = "cvros_rr" ->
                                           cvros_rr(XD_, XS_, mode, fast)),
                        Len(block) + 1,
                        [i \in 0..31 |-> 0],
                        [a \in ARMAddrs |-> 0], NoLanes, NoCells)

(* lane i of the vector numbered v *)
FmaLane(v, i) == F32(R((2 + v) * (i + 1) - 5))

LoadFMA ==
    /\ status = "idle"
    /\ \E op \in {"fmaos_rr", "fmaos_ld", "fmsos_rr"}, XG \in 0..2, XS \in 0..2,
          XT \in 0..2, M \in {"Oeax", "Mecx"}, v \in 0..1 :
        LET G == Xmm_arm[XG]
            S == Xmm_arm[XS]
            DT == IF M = "Oeax" THEN PLAIN_arm ELSE DP_arm(\h10)
        IN  /\ IF op = "fmaos_ld" THEN XT = 0 ELSE M = "Oeax"
            /\ LoadARM([kind |-> "fma", op |-> op, XG |-> XG, XS |-> XS,
                         XT |-> XT, M |-> M, fast |-> 0],
                        CASE op = "fmaos_rr" -> fmaos_rr(G, S, Xmm_arm[XT])
                          [] op = "fmsos_rr" -> fmsos_rr(G, S, Xmm_arm[XT])
                          [] op = "fmaos_ld" -> fmaos_ld(G, S, D_arm[M], DT),
                        1,
                        [i \in 0..31 |-> 0],
                        [a \in ARMAddrs |-> 0],
                        [j \in 0..31 |-> FmaLane(v + j \div 4, j % 4)],
                        [a \in ARMAddrs |->
                            [j \in 0..3 |-> FmaLane(a \div 16, j)]])

ExecARM ==
    /\ cpu.arch = "arm"
    /\ cpu.pc <= Len(out)
    /\ LET c == ARMStep(cpu, LE32(Bytes(out, cpu.pc, 4)))
       IN  cpu' = IF c.pc = c.mark THEN [c EXCEPT !.entry = ARMEntry(c)] ELSE c
    /\ UNCHANGED <<Q, RT_512X1, req, out, status>>

(***************************************************************************)
(* core/config/rtarch_x64_512x1v8.h: the conversions of revisions 1 and 4  *)
(* that go through the x87 unit.  The BASE, x87 and MXCSR rules they call  *)
(* are those of rtarch_x64.h: kept as items that name the rule, the        *)
(* scratch slot it addresses and its immediate.                            *)
(***************************************************************************)
inf_SCR02(nx) == <<nx, 0, <<[disp |-> "inf_SCR02", nx |-> nx]>> >>

(* REX prefix, opcode, ModRM, 32-bit displacement and the immediate: the   *)
(* bytes of the rule without its address-size prefix                       *)
BaseX64(rule, MD, DD, IS) ==
    <<[rule |-> rule, base |-> REG(MD), slot |-> CMD(DD)[1].disp,
       nx |-> VAL(DD), im |-> VAL(IS), bytes |-> 3 + 4 + Len(CMD(IS))]>>

(* an x87 rule on st(0) and st(n): opcode and register byte *)
FpuX64(rule, n) ==
    <<[rule |-> rule, base |-> 0, slot |-> "st", nx |-> n, im |-> 0,
       bytes |-> 2]>>

(* 1 where addresses are 32-bit and ADR emits the prefix 0x67, else 0 *)
x67 == IF "x67" \in DOMAIN cpu THEN cpu.x67 ELSE 0

movqx_ld(XD, MS, DS) ==
    ADR \o EVW(RXB(XD), RXB(MS), 0, 2, 1, 1) \o EMITB(\h28)
    \o MRM(REG(XD), MOD(MS), REG(MS))
    \o AUX(SIB(MS), CMD(DS), EMPTY)

movqx_st(XS, MD, DD) ==
    ADR \o EVW(RXB(XS), RXB(MD), 0, 2, 1, 1) \o EMITB(\h29)
    \o MRM(REG(XS), MOD(MD), REG(MD))
    \o AUX(SIB(MD), CMD(DD), EMPTY)

cvnqn_lane(k) ==
    BaseX64("fpuzn_ld", D.Mebp, inf_SCR01(8 * k), PLAIN)
    \o BaseX64("fpuzs_st", D.Mebp, inf_SCR01(8 * k), PLAIN)

cvnqn_rr(XD, XS) ==
    Rev512("cvnqn_rr",
           movqx_st(XS, D.Mebp, inf_SCR01(0))
           \o cvnqn_lane(0) \o cvnqn_lane(1) \o cvnqn_lane(2) \o cvnqn_lane(3)
           \o cvnqn_lane(4) \o cvnqn_lane(5) \o cvnqn_lane(6) \o cvnqn_lane(7)
           \o movqx_ld(XD, D.Mebp, inf_SCR01(0)),
           EVW(RXB(XD), RXB(XS), 0, 2, 2, 1) \o EMITB(\hE6)
           \o MRM(REG(XD), MOD(XS), REG(XS)))

(* one lane of cvnqx_rr with the jump over the bias add one byte short *)
cvnqx_lane_short_jump(k) ==
    BaseX64("fpuzn_ld", D.Mebp, inf_SCR01(8 * k), PLAIN)
    \o BaseX64("cmpwx_mi", D.Mebp, inf_SCR01(8 * k + 4), IC(0))
    \o EMITB(\h7D) \o EMITB(6 + x67)
    \o BaseX64("addws_ld", D.Mebp, inf_SCR02(0), PLAIN)
    \o BaseX64("fpuzs_st", D.Mebp, inf_SCR01(8 * k), PLAIN)

cvnqx_lane(k) ==
    BaseX64("fpuzn_ld", D.Mebp, inf_SCR01(8 * k), PLAIN)
    \o BaseX64("cmpwx_mi", D.Mebp, inf_SCR01(8 * k + 4), IC(0))
    \o EMITB(\h7D) \o EMITB(7 + x67)
    \o BaseX64("addws_ld", D.Mebp, inf_SCR02(0), PLAIN)
    \o BaseX64("fpuzs_st", D.Mebp, inf_SCR01(8 * k), PLAIN)

cvnqx_rr(XD, XS) ==
    Rev512("cvnqx_rr",
           movqx_st(XS, D.Mebp, inf_SCR01(0))
           \o BaseX64("movwx_mi", D.Mebp, inf_SCR02(0), IW(\h5F800000))
           \o cvnqx_lane(0) \o cvnqx_lane(1) \o cvnqx_lane(2) \o cvnqx_lane(3)
           \o cvnqx_lane(4) \o cvnqx_lane(5) \o cvnqx_lane(6) \o cvnqx_lane(7)
           \o movqx_ld(XD, D.Mebp, inf_SCR01(0)),
           EVW(RXB(XD), RXB(XS), 0, 2, 2, 1) \o EMITB(\h7A)
           \o MRM(REG(XD), MOD(XS), REG(XS)))

SignBit32 == 0 - \h7FFFFFFF - 1

(* one lane of cuzqs_rr with the jump over the direct path one byte short *)
cuzqs_lane_short_jump(k) ==
    BaseX64("fpuzs_ld", D.Mebp, inf_SCR01(8 * k), PLAIN)
    \o FpuX64("cmues_xn", 1)
    \o EMITB(\h73) \o EMITB(8 + x67)
    \o BaseX64("fpuzt_st", D.Mebp, inf_SCR01(8 * k), PLAIN)
    \o EMITB(\hEB) \o EMITB(\h14 + x67 * 2)
    \o FpuX64("subes_xn", 1)
    \o BaseX64("fpuzt_st", D.Mebp, inf_SCR01(8 * k), PLAIN)
    \o BaseX64("addwx_mi", D.Mebp, inf_SCR01(8 * k + 4), IW(SignBit32))

cuzqs_lane(k) ==
    BaseX64("fpuzs_ld", D.Mebp, inf_SCR01(8 * k), PLAIN)
    \o FpuX64("cmues_xn", 1)
    \o EMITB(\h73) \o EMITB(9 + x67)
    \o BaseX64("fpuzt_st", D.Mebp, inf_SCR01(8 * k), PLAIN)
    \o EMITB(\hEB) \o EMITB(\h14 + x67 * 2)
    \o FpuX64("subes_xn", 1)
    \o BaseX64("fpuzt_st", D.Mebp, inf_SCR01(8 * k), PLAIN)
    \o BaseX64("addwx_mi", D.Mebp, inf_SCR01(8 * k + 4), IW(SignBit32))

cuzqs_rr(XD, XS) ==
    Rev512("cuzqs_rr",
           movqx_st(XS, D.Mebp, inf_SCR01(0))
           \o BaseX64("movwx_mi", D.Mebp, inf_SCR02(0), IW(\h5F000000))
           \o BaseX64("fpuws_ld", D.Mebp, inf_SCR02(0), PLAIN)
           \o cuzqs_lane(0) \o cuzqs_lane(1) \o cuzqs_lane(2) \o cuzqs_lane(3)
           \o cuzqs_lane(4) \o cuzqs_lane(5) \o cuzqs_lane(6) \o cuzqs_lane(7)
           \o BaseX64("fpuws_st", D.Mebp, inf_SCR02(0), PLAIN)
           \o movqx_ld(XD, D.Mebp, inf_SCR01(0)),
           EVW(RXB(XD), RXB(XS), 0, 2, 1, 1) \o EMITB(\h78)
           \o MRM(REG(XD), MOD(XS), REG(XS)))

(* the part of cvtqn_rr and cvtqx_rr that derives an x87 control word from *)
(* MXCSR and loads it, with the current one saved first                    *)
fpucw_from_mxcsr ==
    BaseX64("fpucw_st", D.Mebp, inf_SCR02(4), PLAIN)
    \o BaseX64("mxcsr_st", D.Mebp, inf_SCR02(0), PLAIN)
    \o BaseX64("shrwx_mi", D.Mebp, inf_SCR02(0), IB(3))
    \o BaseX64("andwx_mi", D.Mebp, inf_SCR02(0), IH(\h0C00))
    \o BaseX64("orrwx_mi", D.Mebp, inf_SCR02(0), IB(\h7F))
    \o BaseX64("fpucw_ld", D.Mebp, inf_SCR02(0), PLAIN)

cvtqn_rr(XD, XS) ==
    Rev512("cvtqn_rr",
           fpucw_from_mxcsr \o cvnqn_rr(XD, XS)
           \o BaseX64("fpucw_ld", D.Mebp, inf_SCR02(4), PLAIN),
           EVW(RXB(XD), RXB(XS), 0, 2, 2, 1) \o EMITB(\hE6)
           \o MRM(REG(XD), MOD(XS), REG(XS)))

cvtqx_rr(XD, XS) ==
    Rev512("cvtqx_rr",
           fpucw_from_mxcsr \o cvnqx_rr(XD, XS)
           \o BaseX64("fpucw_ld", D.Mebp, inf_SCR02(4), PLAIN),
           EVW(RXB(XD), RXB(XS), 0, 2, 2, 1) \o EMITB(\h7A)
           \o MRM(REG(XD), MOD(XS), REG(XS)))

(* a BASE rule of rtarch_x64.h on a register, with or without a scratch    *)
(* slot as its second operand                                              *)
RegX64(rule, RG, MD, DD) ==
    <<[rule |-> rule, reg |-> REG(RG), base |-> REG(MD),
       slot |-> CMD(DD)[1].disp, nx |-> VAL(DD), im |-> 0]>>

StackX64(rule, RM) ==
    <<[rule |-> rule, reg |-> REG(RM), base |-> 4, slot |-> "stack",
       nx |-> 0, im |-> 0]>>

(* one 64-bit lane of mulqx_rx with the product never stored back          *)
mulqx_lane_unstored(nx) ==
    RegX64("movzx_ld", D.Recx, D.Mebp, inf_SCR01(nx))
    \o RegX64("mulzx_ld", D.Recx, D.Mebp, inf_SCR02(nx))

mulqx_lane(nx) ==
    RegX64("movzx_ld", D.Recx, D.Mebp, inf_SCR01(nx))
    \o RegX64("mulzx_ld", D.Recx, D.Mebp, inf_SCR02(nx))
    \o RegX64("movzx_st", D.Recx, D.Mebp, inf_SCR01(nx))

mulqx_rx(XD) ==
    StackX64("stack_st", D.Recx)
    \o mulqx_lane(\h00) \o mulqx_lane(\h08) \o mulqx_lane(\h10)
    \o mulqx_lane(\h18) \o mulqx_lane(\h20) \o mulqx_lane(\h28)
    \o mulqx_lane(\h30) \o mulqx_lane(\h38)
    \o StackX64("stack_ld", D.Recx)
    \o movqx_ld(XD, D.Mebp, inf_SCR01(0))

mulqx3rr(XD, XS, XT) ==
    Rev512("mulqx3rr",
           movqx_st(XS, D.Mebp, inf_SCR01(0))
           \o movqx_st(XT, D.Mebp, inf_SCR02(0))
           \o mulqx_rx(XD),
           EVW(RXB(XD), RXB(XT), REN(XS), 2, 1, 2) \o EMITB(\h40)
           \o MRM(REG(XD), MOD(XT), REG(XT)))

(* packed double-precision add, sub, mul and the refinement steps built    *)
(* from them; the constants are slots of the info block (rtarch.h)         *)
inf_GPC02_64 == <<0, 0, <<[disp |-> "inf_GPC02_64", nx |-> 0]>> >>

inf_GPC03_64 == <<0, 0, <<[disp |-> "inf_GPC03_64", nx |-> 0]>> >>

addqs3rr(XD, XS, XT) ==
    EVW(RXB(XD), RXB(XT), REN(XS), 2, 1, 1) \o EMITB(\h58)
    \o MRM(REG(XD), MOD(XT), REG(XT))

addqs_rr(XG, XS) == addqs3rr(XG, XG, XS)

subqs3rr(XD, XS, XT) ==
    EVW(RXB(XD), RXB(XT), REN(XS), 2, 1, 1) \o EMITB(\h5C)
    \o MRM(REG(XD), MOD(XT), REG(XT))

subqs_rr(XG, XS) == subqs3rr(XG, XG, XS)

subqs3ld(XD, XS, MT, DT) ==
    ADR \o EVW(RXB(XD), RXB(MT), REN(XS), 2, 1, 1) \o EMITB(\h5C)
    \o MRM(REG(XD), MOD(MT), REG(MT))
    \o AUX(SIB(MT), CMD(DT), EMPTY)

subqs_ld(XG, MS, DS) == subqs3ld(XG, XG, MS, DS)

mulqs3rr(XD, XS, XT) ==
    EVW(RXB(XD), RXB(XT), REN(XS), 2, 1, 1) \o EMITB(\h59)
    \o MRM(REG(XD), MOD(XT), REG(XT))

mulqs_rr(XG, XS) == mulqs3rr(XG, XG, XS)

mulqs3ld(XD, XS, MT, DT) ==
    ADR \o EVW(RXB(XD), RXB(MT), REN(XS), 2, 1, 1) \o EMITB(\h59)
    \o MRM(REG(XD), MOD(MT), REG(MT))
    \o AUX(SIB(MT), CMD(DT), EMPTY)

mulqs_ld(XG, MS, DS) == mulqs3ld(XG, XG, MS, DS)

rcsqs_rr(RCP, XG, XS) ==
    CASE RCP = 0 -> EMPTY
      [] RCP = 2 -> mulqs_rr(XS, XG) \o mulqs_rr(XS, XG)
                    \o addqs_rr(XG, XG) \o subqs_rr(XG, XS)
      [] OTHER -> <<[undef |-> "rcsqs_rr"]>>

rssqs_rr(RSQ, XG, XS) ==
    CASE RSQ = 0 -> EMPTY
      [] RSQ = 2 -> mulqs_rr(XS, XG) \o mulqs_rr(XS, XG)
                    \o subqs_ld(XS, D.Mebp, inf_GPC03_64)
                    \o mulqs_ld(XS, D.Mebp, inf_GPC02_64)
                    \o mulqs_rr(XG, XS)
      [] OTHER -> <<[undef |-> "rssqs_rr"]>>

(* 64-bit integers as eight bytes, low byte first, and their product       *)
(* modulo 2^64                                                             *)
Q64(lo, hi) == [k \in 0..7 |-> IF k < 4 THEN Bits(lo, 8 * k, 8)
                                ELSE Bits(hi, 8 * (k - 4), 8)]

RECURSIVE Mul64Sum(_, _, _, _)
Mul64Sum(a, b, k, i) ==
    IF i > k THEN 0 ELSE a[i] * b[k - i] + Mul64Sum(a, b, k, i + 1)

RECURSIVE Mul64Carry(_, _, _)
Mul64Carry(a, b, k) ==
    IF k < 0 THEN 0
    ELSE (Mul64Sum(a, b, k, 0) + Mul64Carry(a, b, k - 1)) \div 256

Mul64(a, b) ==
    [k \in 0..7 |-> (Mul64Sum(a, b, k, 0) + Mul64Carry(a, b, k - 1)) % 256]

(***************************************************************************)
(* The x86_64 processor running that code: the x87 control word and the    *)
(* top of its stack, MXCSR, the flags of the last compare, the 512-bit     *)
(* registers and the two scratch slots.  A 64-bit lane is kept as its sign *)
(* and, once converted, the rounding mode the conversion ran under and     *)
(* whether 2^64 was added.                                                 *)
(***************************************************************************)
X64Lane(neg) == [neg |-> neg, rc |-> -1, adj |-> FALSE, prec |-> -1]

X64Signs == { [k \in 0..7 |-> FALSE], [k \in 0..7 |-> TRUE],
              [k \in 0..7 |-> k % 2 = 0], [k \in 0..7 |-> k = 7] }

(* the value of an fp32 pattern of a normal number, as n / 2^e *)
F32Value(w) ==
    LET m == Pow2(23) + Bits(w, 0, 23)
        x == Bits(w, 23, 8) - 150
    IN  <<IF w < 0 THEN 0 - m ELSE m, 0 - x>>

(* bits 16j .. 16j+15 of the integer part of a number that is not negative *)
Word16(x, j) ==
    LET t == 0 - x[2] - 16 * j
    IN  CASE t >= 16 -> 0
          [] t >= 0 /\ t < 16 -> (x[1] % Pow2(16 - t)) * Pow2(t)
          [] t < 0 /\ t >= 0 - 30 -> (x[1] \div Pow2(0 - t)) % 65536
          [] OTHER -> 0

(* the 64-bit integer a truncating store leaves, as four 16-bit words *)
Trunc64(x) == [j \in 0..3 |-> Word16(x, j)]

(* a < b for numbers that are not negative, b with no fraction *)
RECURSIVE FLessFrom(_, _, _)
FLessFrom(a, b, j) ==
    IF j < 0 THEN FALSE
    ELSE IF Word16(a, j) # Word16(b, j) THEN Word16(a, j) < Word16(b, j)
    ELSE FLessFrom(a, b, j - 1)

FLess(a, b) == FLessFrom(a, b, 4)

(* im added to the 32-bit word h (0 low, 1 high) of a stored integer *)
AddWord(w, h, im) ==
    LET lo == w[2 * h] + (im % 65536)
        hi == w[2 * h + 1] + ((im \div 65536) % 65536) + (lo \div 65536)
    IN  [w EXCEPT ![2 * h] = lo % 65536, ![2 * h + 1] = hi % 65536]

FpuTop(c, n) == IF Len(c.fpu) > n THEN c.fpu[n + 1] ELSE R(0)

FpuPop(c) == IF c.fpu = <<>> THEN <<>> ELSE Tail(c.fpu)

X64Slot(c, i) ==
    IF i.slot = "inf_SCR01" THEN c.scr01[i.nx \div 8] ELSE c.scr02[i.nx]

X64Rule(c, i) ==
    LET nx == [c EXCEPT !.pc = c.pc + 1]
        k == i.nx \div 8
    IN  CASE i.rule = "fpucw_st" -> [nx EXCEPT !.scr02[i.nx] = c.cw]
          [] i.rule = "fpucw_ld" -> [nx EXCEPT !.cw = c.scr02[i.nx] % 65536]
          [] i.rule = "mxcsr_st" -> [nx EXCEPT !.scr02[i.nx] = c.mxcsr]
          [] i.rule = "movwx_mi" -> [nx EXCEPT !.scr02[i.nx] = i.im]
          [] i.rule = "shrwx_mi" ->
                 [nx EXCEPT !.scr02[i.nx] = c.scr02[i.nx] \div Pow2(i.im)]
          [] i.rule = "andwx_mi" ->
                 [nx EXCEPT !.scr02[i.nx] = And(c.scr02[i.nx], i.im)]
          [] i.rule = "orrwx_mi" ->
                 [nx EXCEPT !.scr02[i.nx] = Or(c.scr02[i.nx], i.im)]
          [] i.rule = "fpuzn_ld" ->
                 [nx EXCEPT !.st0 = [neg |-> c.scr01[k].neg, adj |-> FALSE,
                                     prec |-> -1]]
          [] i.rule = "cmpwx_mi" -> [nx EXCEPT !.ge = ~c.scr01[k].neg]
          [] i.rule = "addws_ld" ->
                 (* the sum is rounded to the precision of the control word *)
                 [nx EXCEPT !.st0.adj = (c.scr02[i.nx] = \h5F800000),
                            !.st0.prec = Bits(c.cw, 8, 2)]
          [] i.rule = "fpuzs_st" ->
                 (LET st == [nx EXCEPT !.scr01[k] = [neg |-> c.st0.neg,
                                                     rc |-> Bits(c.cw, 10, 2),
                                                     adj |-> c.st0.adj,
                                                     prec |-> c.st0.prec]]
                  IN  IF "conv" \in DOMAIN c
                      THEN [st EXCEPT !.conv[k] = c.conv[k] + 1] ELSE st)
          [] i.rule = "fpuws_ld" ->
                 [nx EXCEPT !.fpu = <<F32Value(c.scr02[i.nx])>> \o c.fpu]
          [] i.rule = "fpuws_st" ->
                 [nx EXCEPT !.fpu = FpuPop(c),
                            !.scr02[i.nx] =
                                IF FpuTop(c, 0) = F32Value(c.scr02[i.nx])
                                THEN c.scr02[i.nx] ELSE 0]
          [] i.rule = "fpuzs_ld" ->
                 [nx EXCEPT !.fpu = <<IF "f" \in DOMAIN c.scr01[k]
                                      THEN c.scr01[k].f ELSE R(0)>> \o c.fpu]
          [] i.rule = "cmues_xn" ->
                 [nx EXCEPT !.cf = FLess(FpuTop(c, 0), FpuTop(c, i.nx))]
          [] i.rule = "subes_xn" ->
                 [nx EXCEPT !.fpu = <<RSub(FpuTop(c, 0), FpuTop(c, i.nx))>>
                                    \o FpuPop(c)]
          [] i.rule = "fpuzt_st" ->
                 [nx EXCEPT !.fpu = FpuPop(c),
                            !.scr01[k] = [w |-> Trunc64(FpuTop(c, 0))],
                            !.conv[k] = c.conv[k] + 1]
          [] i.rule = "addwx_mi" ->
                 [nx EXCEPT !.scr01[k] =
                                IF "w" \in DOMAIN c.scr01[k]
                                THEN [w |-> AddWord(c.scr01[k].w,
                                                    (i.nx % 8) \div 4, i.im)]
                                ELSE c.scr01[k],
                            !.bias[k] = c.bias[k] + 1]
          [] i.rule = "stack_st" -> [nx EXCEPT !.stack = <<c.r[i.reg]>> \o c.stack]
          [] i.rule = "stack_ld" ->
                 [nx EXCEPT !.r[i.reg] = Head(c.stack), !.stack = Tail(c.stack)]
          [] i.rule = "movzx_ld" -> [nx EXCEPT !.r[i.reg] = X64Slot(c, i)]
          [] i.rule = "mulzx_ld" ->
                 [nx EXCEPT !.r[i.reg] = Mul64(c.r[i.reg], X64Slot(c, i)),
                            !.muls = Append(c.muls, i.nx)]
          [] i.rule = "movzx_st" ->
                 IF i.slot = "inf_SCR01" THEN [nx EXCEPT !.scr01[k] = c.r[i.reg]]
                 ELSE [nx EXCEPT !.scr02[i.nx] = c.r[i.reg]]

(* a packed double-precision instruction on every lane *)
X64Packed(c, opc, reg, a, b) ==
    [c EXCEPT !.zmm[reg] =
        [k \in 0..7 |-> CASE opc = \h58 -> RAdd(a[k], b[k])
                          [] opc = \h5C -> RSub(a[k], b[k])
                          [] opc = \h59 -> RMul(a[k], b[k])]]

(* the bytes an item of the stream takes in memory *)
X64Bytes(i) ==
    CASE "rule" \in DOMAIN i ->
             IF i.slot = "st" THEN i.bytes ELSE x67 + i.bytes
      [] "b" \in DOMAIN i -> 1
      [] "pfx" \in DOMAIN i /\ i.pfx = "ADR" -> x67
      [] OTHER -> 4

(* the item that starts n bytes after item p; past the end of the stream   *)
(* and one further when the bytes end inside an item                       *)
RECURSIVE X64Land(_, _)
X64Land(p, n) ==
    IF n = 0 THEN p
    ELSE IF n < 0 \/ p > Len(out) THEN Len(out) + 2
    ELSE X64Land(p + 1, n - X64Bytes(out[p]))

X64Step(c) ==
    LET i == out[c.pc]
    IN  CASE "rule" \in DOMAIN i -> X64Rule(c, i)
          [] "pfx" \in DOMAIN i /\ i.pfx = "ADR" ->
                 (* address-size prefix, EVEX prefix, opcode, ModRM, slot *)
                 (LET opc == out[c.pc + 2].b
                      reg == Bits(out[c.pc + 3].b, 3, 3)
                      slot == out[c.pc + 4].disp
                      ren == out[c.pc + 1].args[3]
                      nx == [c EXCEPT !.pc = c.pc + 5]
                  IN  CASE opc = \h29 /\ slot = "inf_SCR01" ->
                               [nx EXCEPT !.scr01 = c.zmm[reg]]
                        [] opc = \h29 /\ slot = "inf_SCR02" ->
                               [nx EXCEPT !.scr02 =
                                   [n \in {8 * k : k \in 0..7} |->
                                       c.zmm[reg][n \div 8]]]
                        [] opc = \h28 /\ slot = "inf_SCR01" ->
                               [nx EXCEPT !.zmm[reg] = c.scr01]
                        [] opc = \h28 /\ slot = "inf_SCR02" ->
                               [nx EXCEPT !.zmm[reg] =
                                   [k \in 0..7 |-> c.scr02[8 * k]]]
                        [] opc \in {\h58, \h59, \h5C} ->
                               X64Packed(nx, opc, reg, c.zmm[ren],
                                         [k \in 0..7 |-> c.gpc[slot]]))
          [] "pfx" \in DOMAIN i /\ i.pfx = "EVW" ->
                 (* EVEX prefix, opcode, ModRM of two registers *)
                 (LET opc == out[c.pc + 1].b
                      reg == Bits(out[c.pc + 2].b, 3, 3)
                      rem == Bits(out[c.pc + 2].b, 0, 3)
                      ren == i.args[3]
                  IN  X64Packed([c EXCEPT !.pc = c.pc + 3], opc, reg,
                                c.zmm[ren], c.zmm[rem]))
          [] "b" \in DOMAIN i ->
                 (* jge, jae or jmp with an 8-bit offset counted in bytes  *)
                 (* from the end of the jump; any other byte is no code    *)
                 (LET taken == CASE i.b = \h7D -> c.ge
                                 [] i.b = \h73 -> ~c.cf
                                 [] OTHER -> TRUE
                  IN  [c EXCEPT !.pc =
                          IF \/ i.b \notin {\h7D, \h73, \hEB}
                             \/ c.pc + 1 > Len(out)
                             \/ "b" \notin DOMAIN out[c.pc + 1]
                          THEN Len(out) + 2
                          ELSE IF taken
                          THEN X64Land(c.pc + 2, out[c.pc + 1].b)
                          ELSE c.pc + 2])

(* movox_ld from a base and a displacement of each SIMD type; the cell at  *)
(* base + dp holds lanes found nowhere else                                *)
DispRange ==
    [ t0 |-> {\h0, \h10, \h7F0, \hFF0},
      t1 |-> {\h0, \h10, \hFF0, \h1000, \hABC0, \hFFF0},
      t2 |-> {\h10, \hFFF0, \h10000, \h12345670, \h7FFF0000, \h7FFFFFF0} ]

LoadDISP ==
    /\ status = "idle"
    /\ \E t \in DOMAIN DispRange, X \in 1..2, M \in {"Mecx", "Mebp"} :
        \E dp \in DispRange[t] :
        LET DS == CASE t = "t0" -> DP_arm(dp)
                    [] t = "t1" -> DH_arm(dp)
                    [] t = "t2" -> DV_arm(dp)
            at == Add32(ARMBase(MOD(D_arm[M])), dp)
        IN  LoadARM([kind |-> "disp", op |-> "movox_ld", X |-> X, M |-> M,
                     DS |-> DS, dp |-> dp, fast |-> 0],
                    movox_ld(Xmm_arm[X], D_arm[M], DS),
                    1, [i \in 0..31 |-> 0],
                    [a \in ARMAddrs \cup {at} |-> 0],
                    NoLanes,
                    [a \in ARMAddrs \cup {at} |->
                        [j \in 0..3 |-> F32(R(IF a = at THEN 7 + j ELSE 0))]])

(* one refinement step of the reciprocal or of the reciprocal square root  *)
(* on an estimate G and an operand S that differ from lane to lane         *)
StepG == {R(1), R(3), <<3, 2>>, <<0 - 5, 1>>}

StepS == {R(2), R(0 - 7), <<5, 1>>}

LoadRCS ==
    /\ status = "idle"
    /\ \E op \in {"rcsos_rr", "rssos_rr", "rcsqs_rr", "rssqs_rr"},
          XG \in 1..3, XS \in 1..3, g \in StepG, x \in StepS :
        LET val(n, k) == CASE n = XG -> RMul(g, R(k + 1))
                           [] n = XS -> RAdd(x, R(k))
                           [] OTHER -> R(n + k)
            cfg == CHOOSE c \in ARMConfigs :
                       \A f \in DOMAIN c \ {"RT_128"} : c[f] = 0
            r == [kind |-> "rcs", op |-> op, XG |-> XG, XS |-> XS, fast |-> 0]
        IN  /\ XG # XS
            /\ IF op \in {"rcsos_rr", "rssos_rr"}
               THEN LoadARM(r,
                            IF op = "rcsos_rr"
                            THEN rcsos_rr(cfg, Xmm_arm[XG], Xmm_arm[XS])
                            ELSE rssos_rr(cfg, Xmm_arm[XG], Xmm_arm[XS]),
                            1, [i \in 0..31 |-> 0], [a \in ARMAddrs |-> 0],
                            [j \in 0..31 |-> F32(val(j \div 4, j % 4))],
                            NoCells)
               ELSE /\ req' = r
                    /\ out' = (IF op = "rcsqs_rr"
                               THEN rcsqs_rr(2, Xmm_x64[XG], Xmm_x64[XS])
                               ELSE rssqs_rr(2, Xmm_x64[XG], Xmm_x64[XS]))
                    /\ status' = "ok"
                    /\ cpu' = [arch |-> "x64", pc |-> 1,
                               zmm |-> [n \in 0..7 |-> [k \in 0..7 |-> val(n, k)]],
                               gpc |-> [inf_GPC02_64 |-> <<0 - 1, 1>>,
                                        inf_GPC03_64 |-> R(3)],
                               entry |-> [zmm |-> [n \in 0..7 |->
                                                     [k \in 0..7 |-> val(n, k)]]]]
                    /\ UNCHANGED <<Q, RT_512X1>>

(* divos and sqros built under a configuration of the ARM table; the code  *)
(* is kept in out, no processor is loaded                                  *)
EmitDIV ==
    /\ status = "idle"
    /\ \E op \in {"divos_rr", "divos_ld", "sqros_rr", "sqros_ld"},
          cfg \in ARMConfigs, X \in 0..2, XS \in 0..2, M \in {"Oeax", "Mecx"} :
        LET G == Xmm_arm[X]
            DS == IF M = "Oeax" THEN PLAIN_arm ELSE DP_arm(\h10)
        IN  /\ cfg.RCP = 0 /\ cfg.RSQ = 0 /\ cfg.FMA = 0 /\ cfg.FMS = 0
            /\ cfg.FLUSH_ZERO = 0 /\ cfg.FAST_FCTRL = 0
            /\ IF op \in {"divos_ld", "sqros_ld"} THEN XS = 0 ELSE M = "Oeax"
            /\ IF op \in {"divos_rr", "divos_ld"} THEN cfg.SQR = 0
               ELSE cfg.DIV = 0
            /\ req' = [kind |-> "div", op |-> op, cfg |-> cfg, X |-> X,
                        XS |-> XS, M |-> M]
            /\ out' = (CASE op = "divos_rr" -> divos_rr(cfg, G, Xmm_arm[XS])
                         [] op = "divos_ld" -> divos_ld(cfg, G, D_arm[M], DS)
                         [] op = "sqros_rr" -> sqros_rr(cfg, G, Xmm_arm[XS])
                         [] op = "sqros_ld" -> sqros_ld(cfg, G, D_arm[M], DS))
            /\ status' = "ok"
            /\ cpu' = [arch |-> "none"]
            /\ UNCHANGED <<Q, RT_512X1>>

LoadCVTX64 ==
    /\ status = "idle"
    /\ \E op \in {"cvtqn_rr", "cvtqx_rr"}, rc \in 0..3, mrc \in 0..3,
          sg \in X64Signs, XD \in 1..2 :
        LET e == IF op = "cvtqn_rr" THEN cvtqn_rr(Xmm_x64[XD], Xmm_x64[3])
                 ELSE cvtqx_rr(Xmm_x64[XD], Xmm_x64[3])
            zero == [k \in 0..7 |-> X64Lane(FALSE)]
        IN  /\ req' = [kind |-> "cvtq", op |-> op, XD |-> XD, XS |-> 3]
            /\ out' = e
            /\ status' = IF Unexpanded(e) = {} THEN "ok" ELSE "error"
            /\ cpu' = [arch |-> "x64", cw |-> Or(\h037F, Shl(rc, 10)),
                       mxcsr |-> Or(\h1F80, Shl(mrc, 13)),
                       scr01 |-> zero, scr02 |-> [n \in {0, 4} |-> 0],
                       zmm |-> [n \in 0..7 |->
                                  IF n = 3 THEN [k \in 0..7 |-> X64Lane(sg[k])]
                                  ELSE zero],
                       st0 |-> [neg |-> FALSE, adj |-> FALSE, prec |-> -1], ge |-> FALSE,
                       pc |-> 1,
                       entry |-> [cw |-> Or(\h037F, Shl(rc, 10))]]
            /\ UNCHANGED <<Q, RT_512X1>>

(* operands of the multiply: lane values whose products overflow 64 bits,  *)
(* each register holding them from a different one on                      *)
MulVals == <<Q64(3, 0), Q64(-1, -1), Q64(0, 1), Q64(\h10001, \h7FFFFFFF),
             Q64(5, 2), Q64(-2, 0)>>

MulVec(j) == [k \in 0..7 |-> MulVals[((j + k) % Len(MulVals)) + 1]]

LoadMULX64 ==
    /\ status = "idle"
    /\ \E XD \in 1..3, XS \in 1..3, XT \in 1..3, j \in 0..2, cx \in 1..2 :
        LET e == mulqx3rr(Xmm_x64[XD], Xmm_x64[XS], Xmm_x64[XT])
            c == [arch |-> "x64", cw |-> \h037F, mxcsr |-> \h1F80,
                  scr01 |-> MulVec(5), scr02 |-> [n \in {8 * k : k \in 0..7} |->
                                                    MulVec(4)[n \div 8]],
                  zmm |-> [n \in 0..7 |-> MulVec(n * j)],
                  r |-> [n \in 0..7 |-> MulVals[((n + cx) % Len(MulVals)) + 1]],
                  stack |-> <<MulVals[cx]>>, muls |-> <<>>,
                  st0 |-> [neg |-> FALSE, adj |-> FALSE, prec |-> -1], ge |-> FALSE,
                  pc |-> 1]
        IN  /\ req' = [kind |-> "mulq", op |-> "mulqx3rr", XD |-> XD,
                        XS |-> XS, XT |-> XT]
            /\ out' = e
            /\ status' = IF Unexpanded(e) = {} THEN "ok" ELSE "error"
            /\ cpu' = c @@ [entry |-> [cw |-> c.cw, zmm |-> c.zmm, r |-> c.r,
                                       stack |-> c.stack]]
            /\ UNCHANGED <<Q, RT_512X1>>

(* cuzqs_rr on lanes below and from 2^63 on, with addresses of either     *)
(* width and an x87 stack that is empty or not at entry                    *)
CuzLow == <<R(0), <<3, 1>>, <<2097153, 1>>, <<1, 0 - 62>>,
            <<16777215, 0 - 39>>, <<262143, 2>>, <<1, 0 - 31>>, <<3, 0 - 40>> >>

CuzHigh == <<<<1, 0 - 63>>, <<3, 0 - 62>>, <<16777215, 0 - 40>>,
             <<8388609, 0 - 40>>, <<1048577, 0 - 43>>, <<1048575, 0 - 44>>,
             <<5, 0 - 61>>, <<7, 0 - 61>> >>

CuzVectors ==
    { [k \in 0..7 |-> CuzLow[k + 1]], [k \in 0..7 |-> CuzHigh[k + 1]],
      [k \in 0..7 |-> IF k % 2 = 0 THEN CuzHigh[k + 1] ELSE CuzLow[k + 1]],
      [k \in 0..7 |-> IF k = 7 THEN CuzHigh[1] ELSE CuzLow[8 - k]] }

LoadCUZ ==
    /\ status = "idle"
    /\ \E XD \in 1..2, v \in CuzVectors, fpu \in {<<>>, <<R(7)>>} :
        LET e == cuzqs_rr(Xmm_x64[XD], Xmm_x64[3])
            zero == [k \in 0..7 |-> [w |-> Trunc64(R(0))]]
            zmm == [n \in 0..7 |->
                      IF n = 3 THEN [k \in 0..7 |-> [f |-> v[k]]] ELSE zero]
        IN  /\ req' = [kind |-> "cuz", op |-> "cuzqs_rr", XD |-> XD, XS |-> 3]
            /\ out' = e
            /\ status' = IF Unexpanded(e) = {} THEN "ok" ELSE "error"
            /\ cpu' = [arch |-> "x64", x67 |-> x67, pc |-> 1,
                       scr01 |-> zero, scr02 |-> [n \in {0, 4} |-> 0],
                       zmm |-> zmm, fpu |-> fpu, cf |-> FALSE, ge |-> FALSE,
                       conv |-> [k \in 0..7 |-> 0],
                       bias |-> [k \in 0..7 |-> 0],
                       entry |-> [zmm |-> zmm, fpu |-> fpu]]
            /\ UNCHANGED <<Q, RT_512X1>>

(* cvnqx_rr on lanes with bit 63 set and clear, with addresses of either   *)
(* width, under each rounding mode of the x87 control word                 *)
LoadCVN ==
    /\ status = "idle"
    /\ \E XD \in 1..2, sg \in X64Signs, rc \in {0, 3} :
        LET e == cvnqx_rr(Xmm_x64[XD], Xmm_x64[3])
            zero == [k \in 0..7 |-> X64Lane(FALSE)]
        IN  /\ req' = [kind |-> "cvn", op |-> "cvnqx_rr", XD |-> XD, XS |-> 3]
            /\ out' = e
            /\ status' = IF Unexpanded(e) = {} THEN "ok" ELSE "error"
            /\ cpu' = [arch |-> "x64", x67 |-> x67, pc |-> 1,
                       cw |-> Or(\h037F, Shl(rc, 10)), mxcsr |-> \h1F80,
                       scr01 |-> zero, scr02 |-> [n \in {0, 4} |-> 0],
                       zmm |-> [n \in 0..7 |->
                                  IF n = 3 THEN [k \in 0..7 |-> X64Lane(sg[k])]
                                  ELSE zero],
                       st0 |-> [neg |-> FALSE, adj |-> FALSE, prec |-> -1], ge |-> FALSE,
                       conv |-> [k \in 0..7 |-> 0],
                       entry |-> [cw |-> Or(\h037F, Shl(rc, 10))]]
            /\ UNCHANGED <<Q, RT_512X1>>

ExecX64 ==
    /\ cpu.arch = "x64"
    /\ status = "ok"
    /\ cpu.pc <= Len(out)
    /\ cpu' = X64Step(cpu)
    /\ UNCHANGED <<Q, RT_512X1, req, out, status>>

InitSimd ==
    /\ Q = 4
    /\ RT_512X1 \in {1, 4}
    /\ req = [kind |-> "none"]
    /\ out = <<>>
    /\ status = "idle"
    /\ cpu = [arch |-> "none"]

NextSimd ==
    \/ LoadMMV \/ LoadCVT \/ LoadFMA \/ LoadRCS \/ LoadDISP \/ ExecARM
    \/ EmitDIV \/ LoadCVTX64 \/ LoadMULX64 \/ ExecX64

SpecSimd == InitSimd /\ [][NextSimd]_vars

(* the conversions through the x87 unit, built for addresses of 64 and of  *)
(* 32 bits                                                                 *)
InitX87 ==
    /\ Q = 4
    /\ RT_512X1 \in {1, 4}
    /\ req = [kind |-> "none"]
    /\ out = <<>>
    /\ status = "idle"
    /\ cpu \in {[arch |-> "none", x67 |-> a] : a \in {0, 1}}

NextX87 == LoadCUZ \/ LoadCVN \/ ExecX64

SpecX87 == InitX87 /\ [][NextX87]_vars

(***************************************************************************)
(* Two streams of emitted code run by two threads over one memory.  Each   *)
(* thread has its own registers, its own info block in Mebp and its own    *)
(* stack; the blocks of the data operands are the threads' own or common   *)
(* to both.  A step is one instruction of one thread.  Next to each thread *)
(* runs a copy of it alone on a memory of its own.                         *)
(***************************************************************************)
ParAddrs ==
    {ARMBase(n) + 4096 * u + 16 * k :
        n \in {T.eax, T.ecx, T.ebp}, u \in 0..1, k \in 0..1}

ParRegs(t, share) ==
    [n \in 0..15 |->
        CASE n = T.ebp -> ARMBase(n) + 4096 * (t - 1)
          [] n \in {T.eax, T.ecx} ->
                 ARMBase(n) + (IF share THEN 0 ELSE 4096 * (t - 1))
          [] n = T.Nxx -> Shl(RT_SIMD_MODE.ROUNDN, 22)
          [] OTHER -> 0]

ParLane(t, j) == F32(R(3 * j + 101 * t - 150))

ParCell(a, j) ==
    F32(R((IF j % 2 = 1 THEN 0 - 1 ELSE 1) * Pow2((a \div 16 + j) % 4)))

ParThreadARM(t, share, start) ==
    [arch |-> "arm", q |-> [i \in 0..31 |-> 0], r |-> ParRegs(t, share),
     mem |-> [a \in ParAddrs |-> 0],
     s |-> [j \in 0..31 |-> ParLane(t, j)],
     dd |-> [n \in 16..31 |-> F64(R(0))],
     mems |-> [a \in ParAddrs |-> [j \in 0..3 |-> ParCell(a, j)]],
     fpscr |-> Shl(RT_SIMD_MODE.ROUNDN, 22), used |-> <<>>,
     pc |-> start, mark |-> 0]

ParCodeARM(op, XG, M) ==
    IF op = "divos_ld"
    THEN divos_ld(CHOOSE cfg \in ARMConfigs :
                      /\ cfg.RT_128 = 1 /\ cfg.DIV = 1 /\ cfg.SQR = 0
                      /\ cfg.RCP = 0 /\ cfg.RSQ = 0 /\ cfg.FMA = 0
                      /\ cfg.FMS = 0 /\ cfg.FLUSH_ZERO = 0
                      /\ cfg.FAST_FCTRL = 0,
                  Xmm_arm[XG], D_arm[M], DispOf(M))
    ELSE fmaos_ld(Xmm_arm[XG], Xmm_arm[2], D_arm[M], DispOf(M))

(* what of a thread is its own: all but the memory *)
ParOwn(c) == [c EXCEPT !.mem = <<>>, !.mems = <<>>]

LoadParARM ==
    /\ status = "idle"
    /\ \E op1 \in {"divos_ld", "fmaos_ld"}, op2 \in {"divos_ld", "fmaos_ld"},
          XG \in 0..1, M \in {"Oeax", "Mecx"}, share \in BOOLEAN :
        LET e1 == ParCodeARM(op1, XG, M)
            e2 == ParCodeARM(op2, 1 - XG, "Oeax")
            c1 == ParThreadARM(1, share, 1)
            c2 == ParThreadARM(2, share, Len(e1) + 1)
        IN  /\ req' = [kind |-> "par", isa |-> "arm", ops |-> <<op1, op2>>,
                        XG |-> <<XG, 1 - XG>>, M |-> <<M, "Oeax">>,
                        share |-> share]
            /\ out' = e1 \o e2
            /\ status' = "ok"
            /\ cpu' = [arch |-> "par",
                       th |-> <<ParOwn(c1), ParOwn(c2)>>, solo |-> <<c1, c2>>,
                       lim |-> <<Len(e1), Len(e1) + Len(e2)>>,
                       mem |-> c1.mem, mems |-> c1.mems,
                       wr |-> <<{}, {}>>, rd |-> <<{}, {}>>]
            /\ UNCHANGED <<Q, RT_512X1>>

(* the cell an instruction stores to or loads from *)
ParStore(c, w) == IF ARMClass(w) = "vst1" THEN {c.r[Bits(w, 16, 4)]} ELSE {}

ParLoad(c, w) == IF ARMClass(w) = "vld1" THEN {c.r[Bits(w, 16, 4)]} ELSE {}

ExecParARM ==
    /\ cpu.arch = "par"
    /\ req.isa = "arm"
    /\ \E t \in 1..2 :
        /\ cpu.th[t].pc <= cpu.lim[t]
        /\ LET c == [cpu.th[t] EXCEPT !.mem = cpu.mem, !.mems = cpu.mems]
               w == LE32(Bytes(out, c.pc, 4))
               n == ARMStep(c, w)
           IN  cpu' = [cpu EXCEPT !.th[t] = ParOwn(n),
                                  !.solo[t] = ARMStep(cpu.solo[t], w),
                                  !.mem = n.mem, !.mems = n.mems,
                                  !.wr[t] = @ \cup ParStore(c, w),
                                  !.rd[t] = @ \cup ParLoad(c, w)]
    /\ UNCHANGED <<Q, RT_512X1, req, out, status>>

(* the same over the x64 stream of mulqx3rr: the scratch areas are those of *)
(* the info block at the address held in the base register of the access   *)
ParBlocks == {Q64(4096, 0), Q64(8192, 0)}

ParThreadX64(t, j, start) ==
    [arch |-> "x64", cw |-> \h037F, mxcsr |-> \h1F80,
     scr01 |-> MulVec(5),
     scr02 |-> [n \in {8 * k : k \in 0..7} |-> MulVec(4)[n \div 8]],
     zmm |-> [n \in 0..7 |-> MulVec(n * j + t)],
     r |-> [n \in 0..7 |-> IF n = REG(D.Mebp) THEN Q64(4096 * t, 0)
                           ELSE MulVals[((n + t) % Len(MulVals)) + 1]],
     stack |-> <<MulVals[t]>>, muls |-> <<>>,
     st0 |-> [neg |-> FALSE, adj |-> FALSE, prec |-> -1], ge |-> FALSE, pc |-> start]

LoadParX64 ==
    /\ status = "idle"
    /\ \E XD \in 1..2, XT \in 1..2, j \in 1..2 :
        LET e1 == mulqx3rr(Xmm_x64[XD], Xmm_x64[1], Xmm_x64[XT])
            e2 == mulqx3rr(Xmm_x64[XT], Xmm_x64[2], Xmm_x64[XD])
            c1 == ParThreadX64(1, j, 1)
            c2 == ParThreadX64(2, j, Len(e1) + 1)
        IN  /\ req' = [kind |-> "par", isa |-> "x64",
                        ops |-> <<"mulqx3rr", "mulqx3rr">>, XD |-> <<XD, XT>>,
                        XT |-> <<XT, XD>>, share |-> FALSE]
            /\ out' = e1 \o e2
            /\ status' = "ok"
            /\ cpu' = [arch |-> "par", th |-> <<c1, c2>>, solo |-> <<c1, c2>>,
                       lim |-> <<Len(e1), Len(e1) + Len(e2)>>,
                       blk |-> [b \in ParBlocks |->
                                   [scr01 |-> c1.scr01, scr02 |-> c1.scr02]],
                       wr |-> <<{}, {}>>, rd |-> <<{}, {}>>]
            /\ UNCHANGED <<Q, RT_512X1>>

(* the base register, the slot and the direction of a memory access *)
ParAccessX64(c) ==
    LET i == out[c.pc]
    IN  IF "rule" \in DOMAIN i
        THEN [base |-> i.base, slot |-> i.slot,
              st |-> i.rule \in {"movzx_st", "stack_st"}]
        ELSE IF "pfx" \in DOMAIN i /\ i.pfx = "ADR"
        THEN [base |-> Bits(out[c.pc + 3].b, 0, 3),
              slot |-> out[c.pc + 4].disp, st |-> out[c.pc + 2].b = \h29]
        ELSE [base |-> REG(D.Mebp), slot |-> "none", st |-> FALSE]

ExecParX64 ==
    /\ cpu.arch = "par"
    /\ req.isa = "x64"
    /\ \E t \in 1..2 :
        /\ cpu.th[t].pc <= cpu.lim[t]
        /\ LET a == ParAccessX64(cpu.th[t])
               b == cpu.th[t].r[IF a.slot = "stack" THEN REG(D.Mebp) ELSE a.base]
               c == [cpu.th[t] EXCEPT !.scr01 = cpu.blk[b].scr01,
                                      !.scr02 = cpu.blk[b].scr02]
               n == X64Step(c)
               cell == IF a.slot \in {"inf_SCR01", "inf_SCR02"}
                       THEN {<<b, a.slot>>} ELSE {}
           IN  cpu' = [cpu EXCEPT !.th[t] = n,
                                  !.solo[t] = X64Step(cpu.solo[t]),
                                  !.blk[b] = [scr01 |-> n.scr01,
                                              scr02 |-> n.scr02],
                                  !.wr[t] = @ \cup (IF a.st THEN cell ELSE {}),
                                  !.rd[t] = @ \cup (IF a.st THEN {} ELSE cell)]
    /\ UNCHANGED <<Q, RT_512X1, req, out, status>>

InitPar ==
    /\ Q = 4
    /\ RT_512X1 = 1
    /\ req = [kind |-> "none"]
    /\ out = <<>>
    /\ status = "idle"
    /\ cpu = [arch |-> "none"]

NextPar == LoadParARM \/ ExecParARM \/ LoadParX64 \/ ExecParX64

SpecPar == InitPar /\ [][NextPar]_vars

(***************************************************************************)
(* The IA-32 processor running a composite BASE rule: eight registers with *)
(* the stack pointer in register 4, and a memory of 32-bit cells that holds *)
(* the stack as well.  A cell never written holds a value fixed by its     *)
(* address.  PUSH and POP move the stack pointer by four; a shift by CL    *)
(* takes the low five bits of Recx.                                        *)
(***************************************************************************)
Cell0(a) == 5 * (a % 4096) + 3

MemRead(m, a) == IF a \in DOMAIN m THEN m[a] ELSE Cell0(a)

MemWrite(m, a, v) ==
    [x \in DOMAIN m \cup {a} |-> IF x = a THEN v ELSE m[x]]

(* a left shift by 1..31 within 32 bits: the low 32 - n bits move up and  *)
(* the highest of them becomes the sign                                    *)
IA32Shl(v, n) ==
    LET k == 32 - n
        u == IF k = 31 THEN (IF v < 0 THEN (v + 2147483647) + 1 ELSE v)
             ELSE v % Pow2(k)
        top == u \div Pow2(k - 1)
    IN  IF n = 0 THEN v
        ELSE IF n = 31 THEN (IF v % 2 = 1 THEN (0 - 2147483647) - 1 ELSE 0)
        ELSE (u - top * Pow2(k - 1)) * Pow2(n)
             + (IF top = 1 THEN (0 - 2147483647) - 1 ELSE 0)

IA32Shift(op, v, n) ==
    CASE n = 0 -> v
      [] op \in {"shl", "sal"} -> IA32Shl(v, n)
      [] op = "sar" -> (IF n = 31 THEN (IF v < 0 THEN 0 - 1 ELSE 0)
                        ELSE v \div Pow2(n))
      [] op = "shr" ->
             (IF n = 31 THEN (IF v < 0 THEN 1 ELSE 0)
              ELSE IF v >= 0 THEN v \div Pow2(n)
              ELSE (((v + 2147483647) + 1) \div Pow2(n)) + Pow2(31 - n))

(* the address of a memory operand: base, index times scale, displacement *)
IA32Addr(c, x) ==
    LET disp == CASE Len(x.disp) = 4 -> LE32(x.disp)
                  [] Len(x.disp) = 1 ->
                         (IF x.disp[1] >= 128 THEN x.disp[1] - 256
                          ELSE x.disp[1])
                  [] OTHER -> 0
        base == IF x.sib # <<>>
                THEN (IF x.mod = 0 /\ x.sib[1] % 8 = 5 THEN 0
                      ELSE c.regs[x.sib[1] % 8])
                ELSE IF x.mod = 0 /\ x.rm = 5 THEN 0 ELSE c.regs[x.rm]
        index == IF x.sib # <<>> /\ (x.sib[1] \div 8) % 8 # 4
                 THEN IA32Shl(c.regs[(x.sib[1] \div 8) % 8], x.sib[1] \div 64)
                 ELSE 0
    IN  Add32(Add32(base, index), disp)

IA32Read(c, x) ==
    IF x.mod = 3 THEN c.regs[x.rm] ELSE MemRead(c.mem, IA32Addr(c, x))

IA32Write(c, x, v) ==
    IF x.mod = 3 THEN [c EXCEPT !.regs[x.rm] = v]
    ELSE [c EXCEPT !.mem = MemWrite(c.mem, IA32Addr(c, x), v)]

IA32Step(c, x) ==
    LET op == IA32Op(x)
        nx == [c EXCEPT !.pc = c.pc + 1,
                        !.acc = IF x.mod = 3 THEN c.acc
                                ELSE c.acc \cup {IA32Addr(c, x)}]
    IN  CASE op = "push" ->
                 [nx EXCEPT !.regs[4] = c.regs[4] - 4,
                            !.mem = MemWrite(c.mem, c.regs[4] - 4, IA32Read(c, x)),
                            !.log = Append(c.log, <<"push", x.mod, x.rm>>)]
          [] op = "pop" ->
                 IA32Write([nx EXCEPT !.regs[4] = c.regs[4] + 4,
                                      !.log = Append(c.log, <<"pop", x.mod, x.rm>>)],
                           x, MemRead(c.mem, c.regs[4]))
          [] op = "mov" /\ x.opc = <<\h8B>> ->
                 [nx EXCEPT !.regs[x.reg] = IA32Read(c, x)]
          [] op = "mov" /\ x.opc = <<\h89>> -> IA32Write(nx, x, c.regs[x.reg])
          [] op = "mov" /\ x.opc = <<\hC7>> -> IA32Write(nx, x, LE32(x.imm))
          [] op \in {"shl", "shr", "sal", "sar"} ->
                 IA32Write(nx, x,
                           IA32Shift(op, IA32Read(c, x),
                                     IF x.opc = <<\hD3>> THEN And(c.regs[1], 31)
                                     ELSE And(x.imm[1], 31)))
          [] OTHER -> [c EXCEPT !.pc = 0]

StackTop == \h7000

CompRegs(RG, v) ==
    [n \in 0..7 |-> IF n = 4 THEN StackTop
                    ELSE IF n = REG(D[RG]) THEN v ELSE 257 * (n + 1)]

LoadComposite(r, v) ==
    LET bt == Build(r)
        regs == CompRegs(r.RG, v)
    IN  /\ req' = r
        /\ out' = bt.out
        /\ status' = bt.status
        /\ cpu' = [arch |-> "ia32", regs |-> regs, mem |-> <<>>, pc |-> 1,
                   log |-> <<>>, acc |-> {}, entry |-> regs]
        /\ UNCHANGED <<Q, RT_512X1>>

CompMems ==
    {<<m, NaturalDisp(m)>> : m \in MemNames}
    \cup {<<m, [K |-> "DP", v |-> 8]>> : m \in {"Mecx", "Mebp", "Iecx"}}

CompValues == {\h1234, 0 - \h100, \h7FFFFFFF}

(* the shifts by a register or a memory operand; Recx is never the first   *)
(* operand of the rr and ld forms                                          *)
LoadShift ==
    /\ status = "idle"
    /\ \E op \in DOMAIN G2, form \in {"rr", "ld", "st"}, RG \in RegNames,
          RM \in RegNames, m \in CompMems, v \in CompValues :
        /\ form \in {"rr", "ld"} => RG # "Recx"
        /\ form = "rr" => m = <<"Oeax", NaturalDisp("Oeax")>>
        /\ form # "rr" => RM = "Reax"
        /\ LoadComposite(IF form = "rr"
                         THEN [kind |-> "base", op |-> op, form |-> form,
                               RG |-> RG, RM |-> RM]
                         ELSE [kind |-> "base", op |-> op, form |-> form,
                               RG |-> RG, RM |-> m[1], DP |-> m[2]], v)

(* the divisions and remainders: RG and RM are not Reax, RM is not Redx *)
LoadDivide ==
    /\ status = "idle"
    /\ \E op \in DOMAIN G3, form \in {"ri", "rr", "ld"},
          RG \in RegNames \ {"Reax"}, RM \in RegNames \ {"Reax", "Redx"},
          v \in CompValues, m \in {"Mebp", "Oeax", "Iecx"} :
        /\ form # "rr" => RM = "Rebx"
        /\ form # "ld" => m = "Mebp"
        /\ LoadComposite(
               CASE form = "rr" -> [kind |-> "base", op |-> op, form |-> form,
                                    RG |-> RG, RM |-> RM]
                 [] form = "ri" -> [kind |-> "base", op |-> op, form |-> form,
                                    RG |-> RG, RM |-> RG,
                                    IM |-> [K |-> "IB", v |-> 3]]
                 [] form = "ld" -> [kind |-> "base", op |-> op, form |-> form,
                                    RG |-> RG, RM |-> m,
                                    DP |-> NaturalDisp(m)], v)

ExecIA32 ==
    /\ cpu.arch = "ia32"
    /\ status = "ok"
    /\ cpu.pc \in 1..Len(Code)
    /\ cpu' = IA32Step(cpu, Code[cpu.pc])
    /\ UNCHANGED <<Q, RT_512X1, req, out, status>>

InitComp ==
    /\ Q = 1
    /\ RT_512X1 = 0
    /\ req = [kind |-> "none"]
    /\ out = <<>>
    /\ status = "idle"
    /\ cpu = [arch |-> "none"]

NextComp == LoadShift \/ LoadDivide \/ ExecIA32

SpecComp == InitComp /\ [][NextComp]_vars

(***************************************************************************)
(* A stream of several rules: each emission appends its bytes to what was  *)
(* emitted before.  The build configuration (Q, RT_512X1) is fixed at the  *)
(* start; cuts holds the length of the stream after each emission.         *)
(***************************************************************************)
MaxStream == 3

StreamX86 ==
    {[kind |-> "base", op |-> op, form |-> "rr", RG |-> "Rebx", RM |-> "Recx"] :
        op \in {"movwx", "divwx", "shlwz"}}
    \cup {[kind |-> "base", op |-> "addwz", form |-> "ld", RG |-> "Reax",
           RM |-> "Mebp", DP |-> [K |-> "DP", v |-> \h1004]],
          [kind |-> "base", op |-> "divwx", form |-> "ri", RM |-> "Rebx",
           IM |-> [K |-> "IB", v |-> \hFF]],
          [kind |-> "cmj", form |-> "rr", RG |-> "Reax", RM |-> "Recx",
           cc |-> "EQ_x", lb |-> "L1"]}

StreamARM ==
    {[kind |-> "arm", op |-> op, X |-> 1, M |-> m] :
        op \in {"movox_ld", "fmaos_ld", "mmvox_ld"}, m \in {"Oeax", "Mecx"}}

StreamX64 ==
    {[kind |-> "x64", op |-> op, X |-> x] :
        op \in {"mulqx3rr", "addqs3rr", "movqx_st"}, x \in 1..2}

ExpandStream(r) ==
    CASE r.kind = "arm" ->
            (CASE r.op = "movox_ld" ->
                      movox_ld(Xmm_arm[r.X], D_arm[r.M], DispOf(r.M))
               [] r.op = "fmaos_ld" ->
                      fmaos_ld(Xmm_arm[r.X], Xmm_arm[2], D_arm[r.M], DispOf(r.M))
               [] r.op = "mmvox_ld" ->
                      mmvox_ld(Xmm_arm[r.X], D_arm[r.M], DispOf(r.M)))
      [] r.kind = "x64" ->
            (CASE r.op = "mulqx3rr" ->
                      mulqx3rr(Xmm_x64[r.X], Xmm_x64[3], Xmm_x64[r.X])
               [] r.op = "addqs3rr" ->
                      addqs3rr(Xmm_x64[r.X], Xmm_x64[3], Xmm_x64[r.X])
               [] r.op = "movqx_st" ->
                      movqx_st(Xmm_x64[r.X], D.Mebp, inf_SCR01(0)))
      [] OTHER -> Expand(r)

EmitNext(isa, r) ==
    /\ req' = [kind |-> "stream", items |-> req.items \o <<r>>]
    /\ out' = out \o ExpandStream(r)
    /\ cpu' = [arch |-> "stream", isa |-> isa,
               cuts |-> cpu.cuts \o <<Len(out')>>]
    /\ status' = "ok"
    /\ UNCHANGED <<Q, RT_512X1>>

AppendX86 == 
    /\ cpu.isa \in {"none", "x86"}
    /\ Len(req.items) < MaxStream
    /\ \E r \in StreamX86 : EmitNext("x86", r)

AppendARM == 
    /\ cpu.isa \in {"none", "arm"}
    /\ Len(req.items) < MaxStream
    /\ \E r \in StreamARM : EmitNext("arm", r)

AppendX64 == 
    /\ cpu.isa \in {"none", "x64"}
    /\ Len(req.items) < MaxStream
    /\ \E r \in StreamX64 : EmitNext("x64", r)

InitStream ==
    /\ Q \in {1, 4}
    /\ RT_512X1 \in {1, 2}
    /\ req = [kind |-> "stream", items |-> <<>>]
    /\ out = <<>>
    /\ status = "idle"
    /\ cpu = [arch |-> "stream", isa |-> "none", cuts |-> <<>>]

NextStream == AppendX86 \/ AppendARM \/ AppendX64

SpecStream == InitStream /\ [][NextStream]_vars

(***************************************************************************)
(* The conditional compilation of the two tables.  Each entry is a run of  *)
(* #define lines between two preprocessor directives: the lines it spans,  *)
(* the names it defines in order, and the condition under which the        *)
(* preprocessor keeps it, as a list of tests that must all hold.  A test   *)
(* is <<negated, connective, comparisons>>: the condition of an #if or     *)
(* #elif, negated for each earlier branch of the same chain.  Flags are    *)
(* written without their RT_SIMD_COMPAT_ or RT_SIMD_ prefix; the include   *)
(* guard and the RT_SIMD_CODE guard hold in every build.                   *)
(***************************************************************************)
ARMTable == <<
    [ first |-> 12, last |-> 17,
      when |-> <<>>,
      names |-> <<"RT_SIMD_REGS", "RT_SIMD_ALIGN", "RT_SIMD_WIDTH32",
                  "RT_SIMD_SET32", "RT_SIMD_WIDTH64", "RT_SIMD_SET64">> ],
    [ first |-> 94, last |-> 289,
      when |-> <<<<FALSE, "and", <<<<"RT_128", "!=", 0>>>>>>>>,
      names |-> <<"MXM", "MPM", "B2", "P2", "C2", "B20", "P20", "C20", "B21",
                  "P21", "C21", "B22", "P22", "C22", "Tmm0", "TmmM", "TmmC",
                  "TmmD", "TmmE", "TmmF", "V", "Xmm0", "Xmm1", "Xmm2", "Xmm3",
                  "Xmm4", "Xmm5", "Xmm6", "Xmm7", "movox_rr", "movox_ld",
                  "movox_st", "adrpx_ld", "mmvox_ld", "mmvox_st", "andox_rr",
                  "andox_ld", "annox_rr", "annox_ld", "orrox_rr", "orrox_ld",
                  "ornox_rr", "ornox_ld", "xorox_rr", "xorox_ld", "notox_rx",
                  "negos_rx", "addos_rr", "addos_ld", "subos_rr", "subos_ld",
                  "mulos_rr", "mulos_ld">> ],
    [ first |-> 299, last |-> 305,
      when |-> <<<<FALSE, "and", <<<<"RT_128", "!=", 0>>>>>>,
                 <<FALSE, "and", <<<<"DIV", "==", 1>>>>>>>>,
      names |-> <<"divos_rr", "divos_ld">> ],
    [ first |-> 315, last |-> 328,
      when |-> <<<<FALSE, "and", <<<<"RT_128", "!=", 0>>>>>>,
                 <<TRUE, "and", <<<<"DIV", "==", 1>>>>>>,
                 <<FALSE, "and", <<<<"RT_128", "<", 2>>>>>>>>,
      names |-> <<"divos_rr", "divos_ld">> ],
    [ first |-> 346, last |-> 355,
      when |-> <<<<FALSE, "and", <<<<"RT_128", "!=", 0>>>>>>,
                 <<TRUE, "and", <<<<"DIV", "==", 1>>>>>>,
                 <<TRUE, "and", <<<<"RT_128", "<", 2>>>>>>>>,
      names |-> <<"divos_rr", "divos_ld">> ],
    [ first |-> 375, last |-> 381,
      when |-> <<<<FALSE, "and", <<<<"RT_128", "!=", 0>>>>>>,
                 <<FALSE, "and", <<<<"SQR", "==", 1>>>>>>>>,
      names |-> <<"sqros_rr", "sqros_ld">> ],
    [ first |-> 387, last |-> 397,
      when |-> <<<<FALSE, "and", <<<<"RT_128", "!=", 0>>>>>>,
                 <<TRUE, "and", <<<<"SQR", "==", 1>>>>>>>>,
      names |-> <<"sqros_rr", "sqros_ld">> ],
    [ first |-> 422, last |-> 425,
      when |-> <<<<FALSE, "and", <<<<"RT_128", "!=", 0>>>>>>,
                 <<FALSE, "and", <<<<"RCP", "!=", 1>>>>>>>>,
      names |-> <<"rceos_rr", "rcsos_rr">> ],
    [ first |-> 439, last |-> 442,
      when |-> <<<<FALSE, "and", <<<<"RT_128", "!=", 0>>>>>>,
                 <<FALSE, "and", <<<<"RSQ", "!=", 1>>>>>>>>,
      names |-> <<"rseos_rr", "rssos_rr">> ],
    [ first |-> 460, last |-> 463,
      when |-> <<<<FALSE, "and", <<<<"RT_128", "!=", 0>>>>>>,
                 <<FALSE, "and", <<<<"RT_128", "<", 2>>>>>>,
                 <<FALSE, "and", <<<<"FMA", "==", 0>>>>>>>>,
      names |-> <<"fmaos_rr", "fmaos_ld">> ],
    [ first |-> 475, last |-> 501,
      when |-> <<<<FALSE, "and", <<<<"RT_128", "!=", 0>>>>>>,
                 <<FALSE, "and", <<<<"RT_128", "<", 2>>>>>>,
                 <<TRUE, "and", <<<<"FMA", "==", 0>>>>>>,
                 <<FALSE, "and", <<<<"FMA", "==", 1>>>>>>>>,
      names |-> <<"fmaos_rr", "fmaos_ld">> ],
    [ first |-> 538, last |-> 541,
      when |-> <<<<FALSE, "and", <<<<"RT_128", "!=", 0>>>>>>,
                 <<FALSE, "and", <<<<"RT_128", "<", 2>>>>>>,
                 <<FALSE, "and", <<<<"FMS", "==", 0>>>>>>>>,
      names |-> <<"fmsos_rr", "fmsos_ld">> ],
    [ first |-> 553, last |-> 579,
      when |-> <<<<FALSE, "and", <<<<"RT_128", "!=", 0>>>>>>,
                 <<FALSE, "and", <<<<"RT_128", "<", 2>>>>>>,
                 <<TRUE, "and", <<<<"FMS", "==", 0>>>>>>,
                 <<FALSE, "and", <<<<"FMS", "==", 1>>>>>>>>,
      names |-> <<"fmsos_rr", "fmsos_ld">> ],
    [ first |-> 618, last |-> 621,
      when |-> <<<<FALSE, "and", <<<<"RT_128", "!=", 0>>>>>>,
                 <<TRUE, "and", <<<<"RT_128", "<", 2>>>>>>,
                 <<FALSE, "and", <<<<"FMA", "<=", 1>>>>>>>>,
      names |-> <<"fmaos_rr", "fmaos_ld">> ],
    [ first |-> 635, last |-> 638,
      when |-> <<<<FALSE, "and", <<<<"RT_128", "!=", 0>>>>>>,
                 <<TRUE, "and", <<<<"RT_128", "<", 2>>>>>>,
                 <<FALSE, "and", <<<<"FMS", "<=", 1>>>>>>>>,
      names |-> <<"fmsos_rr", "fmsos_ld">> ],
    [ first |-> 650, last |-> 722,
      when |-> <<<<FALSE, "and", <<<<"RT_128", "!=", 0>>>>>>>>,
      names |-> <<"minos_rr", "minos_ld", "maxos_rr", "maxos_ld", "ceqos_rr",
                  "ceqos_ld", "cneos_rr", "cneos_ld", "cltos_rr", "cltos_ld",
                  "cleos_rr", "cleos_ld", "cgtos_rr", "cgtos_ld", "cgeos_rr",
                  "cgeos_ld">> ],
    [ first |-> 737, last |-> 816,
      when |-> <<<<FALSE, "and", <<<<"RT_128", "!=", 0>>>>>>,
                 <<FALSE, "and", <<<<"RT_128", "<", 4>>>>>>>>,
      names |-> <<"rnzos_rr", "rnzos_ld", "cvzos_rr", "cvzos_ld", "rnpos_rr",
                  "rnpos_ld", "cvpos_rr", "cvpos_ld", "rnmos_rr", "rnmos_ld",
                  "cvmos_rr", "cvmos_ld", "rnnos_rr", "rnnos_ld", "cvnos_rr",
                  "cvnos_ld">> ],
    [ first |-> 826, last |-> 907,
      when |-> <<<<FALSE, "and", <<<<"RT_128", "!=", 0>>>>>>,
                 <<TRUE, "and", <<<<"RT_128", "<", 4>>>>>>>>,
      names |-> <<"rnzos_rr", "rnzos_ld", "cvzos_rr", "cvzos_ld", "rnpos_rr",
                  "rnpos_ld", "cvpos_rr", "cvpos_ld", "rnmos_rr", "rnmos_ld",
                  "cvmos_rr", "cvmos_ld", "rnnos_rr", "rnnos_ld", "cvnos_rr",
                  "cvnos_ld">> ],
    [ first |-> 918, last |-> 1003,
      when |-> <<<<FALSE, "and", <<<<"RT_128", "!=", 0>>>>>>>>,
      names |-> <<"cvnon_rr", "cvnon_ld", "addox_rr", "addox_ld", "subox_rr",
                  "subox_ld", "shlox_ri", "shlox_ld", "shrox_ri", "shrox_ld",
                  "shron_ri", "shron_ld", "RT_SIMD_MASK_NONE",
                  "RT_SIMD_MASK_FULL", "movms_rr", "CHECK_MASK">> ],
    [ first |-> 1016, last |-> 1019,
      when |-> <<<<FALSE, "and", <<<<"RT_128", "!=", 0>>>>>>,
                 <<FALSE, "and", <<<<"FLUSH_ZERO", "==", 0>>>>>>>>,
      names |-> <<"RT_SIMD_MODE_ROUNDN", "RT_SIMD_MODE_ROUNDM",
                  "RT_SIMD_MODE_ROUNDP", "RT_SIMD_MODE_ROUNDZ">> ],
    [ first |-> 1023, last |-> 1026,
      when |-> <<<<FALSE, "and", <<<<"RT_128", "!=", 0>>>>>>,
                 <<TRUE, "and", <<<<"FLUSH_ZERO", "==", 0>>>>>>>>,
      names |-> <<"RT_SIMD_MODE_ROUNDN", "RT_SIMD_MODE_ROUNDM",
                  "RT_SIMD_MODE_ROUNDP", "RT_SIMD_MODE_ROUNDZ">> ],
    [ first |-> 1030, last |-> 1038,
      when |-> <<<<FALSE, "and", <<<<"RT_128", "!=", 0>>>>>>>>,
      names |-> <<"RT_SIMD_MODE_ROUNDN_F", "RT_SIMD_MODE_ROUNDM_F",
                  "RT_SIMD_MODE_ROUNDP_F", "RT_SIMD_MODE_ROUNDZ_F", "fpscr_ld",
                  "fpscr_st">> ],
    [ first |-> 1043, last |-> 1048,
      when |-> <<<<FALSE, "and", <<<<"RT_128", "!=", 0>>>>>>,
                 <<FALSE, "and", <<<<"FAST_FCTRL", "==", 0>>>>>>>>,
      names |-> <<"FCTRL_SET", "FCTRL_RESET">> ],
    [ first |-> 1053, last |-> 1056,
      when |-> <<<<FALSE, "and", <<<<"RT_128", "!=", 0>>>>>>,
                 <<TRUE, "and", <<<<"FAST_FCTRL", "==", 0>>>>>>>>,
      names |-> <<"FCTRL_SET", "FCTRL_RESET">> ],
    [ first |-> 1069, last |-> 1073,
      when |-> <<<<FALSE, "and", <<<<"RT_128", "!=", 0>>>>>>,
                 <<FALSE, "and", <<<<"RT_128", "<", 4>>>>>>>>,
      names |-> <<"rndos_rr", "rndos_ld">> ],
    [ first |-> 1079, last |-> 1085,
      when |-> <<<<FALSE, "and", <<<<"RT_128", "!=", 0>>>>>>,
                 <<TRUE, "and", <<<<"RT_128", "<", 4>>>>>>>>,
      names |-> <<"rndos_rr", "rndos_ld">> ],
    [ first |-> 1096, last |-> 1121,
      when |-> <<<<FALSE, "and", <<<<"RT_128", "!=", 0>>>>>>>>,
      names |-> <<"cvtos_rr", "cvtos_ld", "cvton_rr", "cvton_ld">> ],
    [ first |-> 1139, last |-> 1143,
      when |-> <<<<FALSE, "and", <<<<"RT_128", "!=", 0>>>>>>,
                 <<FALSE, "and", <<<<"RT_128", "<", 4>>>>>>>>,
      names |-> <<"rnros_rr", "cvros_rr">> ],
    [ first |-> 1150, last |-> 1154,
      when |-> <<<<FALSE, "and", <<<<"RT_128", "!=", 0>>>>>>,
                 <<TRUE, "and", <<<<"RT_128", "<", 4>>>>>>>>,
      names |-> <<"rnros_rr", "cvros_rr">> ],
    [ first |-> 1166, last |-> 1194,
      when |-> <<<<FALSE, "and", <<<<"RT_128", "!=", 0>>>>>>>>,
      names |-> <<"sregs_sa", "sregs_la">> ]
>>

X64Table == <<
    [ first |-> 130, last |-> 145,
      when |-> <<<<FALSE, "and", <<<<"RT_512X1", ">=", 1>>, <<"RT_512X1", "<=", 8>>>>>>,
                 <<FALSE, "or", <<<<"RT_512X1", "==", 1>>, <<"RT_512X1", "==", 4>>>>>>>>,
      names |-> <<"ck1qx_rm", "mz1qx_ld", "mxmqx_ld", "mmxqx_ld">> ],
    [ first |-> 152, last |-> 164,
      when |-> <<<<FALSE, "and", <<<<"RT_512X1", ">=", 1>>, <<"RT_512X1", "<=", 8>>>>>>,
                 <<TRUE, "or", <<<<"RT_512X1", "==", 1>>, <<"RT_512X1", "==", 4>>>>>>>>,
      names |-> <<"ck1qx_rm", "mz1qx_ld", "mxmqx_ld", "mmxqx_ld">> ],
    [ first |-> 179, last |-> 489,
      when |-> <<<<FALSE, "and", <<<<"RT_512X1", ">=", 1>>, <<"RT_512X1", "<=", 8>>>>>>>>,
      names |-> <<"addqsPrr", "addqsPld", "addqs4rr", "addqs4ld", "subqsPrr",
                  "subqsPld", "subqs4rr", "subqs4ld", "mulqsPrr", "mulqsPld",
                  "mulqs4rr", "mulqs4ld", "divqsPrr", "divqsPld", "divqs4rr",
                  "divqs4ld", "ceqqsPrr", "ceqqsPld", "ceqqs4rr", "ceqqs4ld",
                  "cneqsPrr", "cneqsPld", "cneqs4rr", "cneqs4ld", "cltqsPrr",
                  "cltqsPld", "cltqs4rr", "cltqs4ld", "cleqsPrr", "cleqsPld",
                  "cleqs4rr", "cleqs4ld", "cgtqsPrr", "cgtqsPld", "cgtqs4rr",
                  "cgtqs4ld", "cgeqsPrr", "cgeqsPld", "cgeqs4rr", "cgeqs4ld",
                  "mmxqx_rr", "mxmqx_rr", "mxjqx_rx", "mxvqx_rr", "mxvqx_ld",
                  "mxvqx_st", "selqx_rr", "selqx_ld", "gthqx_ld", "gtiqx_ld",
                  "sctqx_st", "sciqx_st", "elmqx_st", "movqx_rr", "movqx_ld",
                  "movqx_st", "mmvqx_rr", "mmvqx_ld", "mmvqx_st">> ],
    [ first |-> 499, last |-> 578,
      when |-> <<<<FALSE, "and", <<<<"RT_512X1", ">=", 1>>, <<"RT_512X1", "<=", 8>>>>>>,
                 <<FALSE, "or", <<<<"RT_512X1", "==", 1>>, <<"RT_512X1", "==", 4>>>>>>>>,
      names |-> <<"andqx_rr", "andqx_ld", "andqx3rr", "andqx3ld", "annqx_rr",
                  "annqx_ld", "annqx3rr", "annqx3ld", "orrqx_rr", "orrqx_ld",
                  "orrqx3rr", "orrqx3ld", "ornqx_rr", "ornqx_ld", "ornqx3rr",
                  "ornqx3ld", "xorqx_rr", "xorqx_ld", "xorqx3rr", "xorqx3ld">> ],
    [ first |-> 587, last |-> 666,
      when |-> <<<<FALSE, "and", <<<<"RT_512X1", ">=", 1>>, <<"RT_512X1", "<=", 8>>>>>>,
                 <<TRUE, "or", <<<<"RT_512X1", "==", 1>>, <<"RT_512X1", "==", 4>>>>>>>>,
      names |-> <<"andqx_rr", "andqx_ld", "andqx3rr", "andqx3ld", "annqx_rr",
                  "annqx_ld", "annqx3rr", "annqx3ld", "orrqx_rr", "orrqx_ld",
                  "orrqx3rr", "orrqx3ld", "ornqx_rr", "ornqx_ld", "ornqx3rr",
                  "ornqx3ld", "xorqx_rr", "xorqx_ld", "xorqx3rr", "xorqx3ld">> ],
    [ first |-> 675, last |-> 771,
      when |-> <<<<FALSE, "and", <<<<"RT_512X1", ">=", 1>>, <<"RT_512X1", "<=", 8>>>>>>>>,
      names |-> <<"notqx_rx", "notqx_rr", "negqs_rx", "negqs_rr", "addqs_rr",
                  "addqs_ld", "addqs3rr", "addqs3ld", "subqs_rr", "subqs_ld",
                  "subqs3rr", "subqs3ld", "mulqs_rr", "mulqs_ld", "mulqs3rr",
                  "mulqs3ld", "divqs_rr", "divqs_ld", "divqs3rr", "divqs3ld",
                  "sqrqs_rr", "sqrqs_ld">> ],
    [ first |-> 786, last |-> 790,
      when |-> <<<<FALSE, "and", <<<<"RT_512X1", ">=", 1>>, <<"RT_512X1", "<=", 8>>>>>>,
                 <<FALSE, "and", <<<<"RCP", "==", 0>>>>>>>>,
      names |-> <<"rceqs_rr", "rcsqs_rr">> ],
    [ first |-> 794, last |-> 798,
      when |-> <<<<FALSE, "and", <<<<"RT_512X1", ">=", 1>>, <<"RT_512X1", "<=", 8>>>>>>,
                 <<TRUE, "and", <<<<"RCP", "==", 0>>>>>>,
                 <<FALSE, "and", <<<<"RCP", "==", 2>>>>>>>>,
      names |-> <<"rceqs_rr", "rcsqs_rr">> ],
    [ first |-> 814, last |-> 818,
      when |-> <<<<FALSE, "and", <<<<"RT_512X1", ">=", 1>>, <<"RT_512X1", "<=", 8>>>>>>,
                 <<FALSE, "and", <<<<"RSQ", "==", 0>>>>>>>>,
      names |-> <<"rseqs_rr", "rssqs_rr">> ],
    [ first |-> 822, last |-> 826,
      when |-> <<<<FALSE, "and", <<<<"RT_512X1", ">=", 1>>, <<"RT_512X1", "<=", 8>>>>>>,
                 <<TRUE, "and", <<<<"RSQ", "==", 0>>>>>>,
                 <<FALSE, "and", <<<<"RSQ", "==", 2>>>>>>>>,
      names |-> <<"rseqs_rr", "rssqs_rr">> ],
    [ first |-> 844, last |-> 848,
      when |-> <<<<FALSE, "and", <<<<"RT_512X1", ">=", 1>>, <<"RT_512X1", "<=", 8>>>>>>,
                 <<FALSE, "and", <<<<"FMA", "<=", 1>>>>>>>>,
      names |-> <<"fmaqs_rr", "fmaqs_ld">> ],
    [ first |-> 861, last |-> 865,
      when |-> <<<<FALSE, "and", <<<<"RT_512X1", ">=", 1>>, <<"RT_512X1", "<=", 8>>>>>>,
                 <<FALSE, "and", <<<<"FMS", "<=", 1>>>>>>>>,
      names |-> <<"fmsqs_rr", "fmsqs_ld">> ],
    [ first |-> 876, last |-> 1059,
      when |-> <<<<FALSE, "and", <<<<"RT_512X1", ">=", 1>>, <<"RT_512X1", "<=", 8>>>>>>>>,
      names |-> <<"minqs_rr", "minqs_ld", "minqs3rr", "minqs3ld", "maxqs_rr",
                  "maxqs_ld", "maxqs3rr", "maxqs3ld", "ceqqs_rr", "ceqqs_ld",
                  "ceqqs3rr", "ceqqs3ld", "cneqs_rr", "cneqs_ld", "cneqs3rr",
                  "cneqs3ld", "cltqs_rr", "cltqs_ld", "cltqs3rr", "cltqs3ld",
                  "cleqs_rr", "cleqs_ld", "cleqs3rr", "cleqs3ld", "cgtqs_rr",
                  "cgtqs_ld", "cgtqs3rr", "cgtqs3ld", "cgeqs_rr", "cgeqs_ld",
                  "cgeqs3rr", "cgeqs3ld", "RT_SIMD_MASK_NONE64_512",
                  "RT_SIMD_MASK_FULL64_512", "mkjqx_rx", "rnzqs_rr", "rnzqs_ld">> ],
    [ first |-> 1066, last |-> 1086,
      when |-> <<<<FALSE, "and", <<<<"RT_512X1", ">=", 1>>, <<"RT_512X1", "<=", 8>>>>>>,
                 <<FALSE, "or", <<<<"RT_512X1", "==", 1>>, <<"RT_512X1", "==", 4>>>>>>>>,
      names |-> <<"cvzqs_rr", "cvzqs_ld">> ],
    [ first |-> 1092, last |-> 1096,
      when |-> <<<<FALSE, "and", <<<<"RT_512X1", ">=", 1>>, <<"RT_512X1", "<=", 8>>>>>>,
                 <<TRUE, "or", <<<<"RT_512X1", "==", 1>>, <<"RT_512X1", "==", 4>>>>>>>>,
      names |-> <<"cvzqs_rr", "cvzqs_ld">> ],
    [ first |-> 1108, last |-> 1113,
      when |-> <<<<FALSE, "and", <<<<"RT_512X1", ">=", 1>>, <<"RT_512X1", "<=", 8>>>>>>>>,
      names |-> <<"rnpqs_rr", "rnpqs_ld">> ],
    [ first |-> 1120, last |-> 1124,
      when |-> <<<<FALSE, "and", <<<<"RT_512X1", ">=", 1>>, <<"RT_512X1", "<=", 8>>>>>>,
                 <<FALSE, "or", <<<<"RT_512X1", "==", 1>>, <<"RT_512X1", "==", 4>>>>>>>>,
      names |-> <<"cvpqs_rr", "cvpqs_ld">> ],
    [ first |-> 1130, last |-> 1134,
      when |-> <<<<FALSE, "and", <<<<"RT_512X1", ">=", 1>>, <<"RT_512X1", "<=", 8>>>>>>,
                 <<TRUE, "or", <<<<"RT_512X1", "==", 1>>, <<"RT_512X1", "==", 4>>>>>>>>,
      names |-> <<"cvpqs_rr", "cvpqs_ld">> ],
    [ first |-> 1145, last |-> 1150,
      when |-> <<<<FALSE, "and", <<<<"RT_512X1", ">=", 1>>, <<"RT_512X1", "<=", 8>>>>>>>>,
      names |-> <<"rnmqs_rr", "rnmqs_ld">> ],
    [ first |-> 1157, last |-> 1161,
      when |-> <<<<FALSE, "and", <<<<"RT_512X1", ">=", 1>>, <<"RT_512X1", "<=", 8>>>>>>,
                 <<FALSE, "or", <<<<"RT_512X1", "==", 1>>, <<"RT_512X1", "==", 4>>>>>>>>,
      names |-> <<"cvmqs_rr", "cvmqs_ld">> ],
    [ first |-> 1167, last |-> 1171,
      when |-> <<<<FALSE, "and", <<<<"RT_512X1", ">=", 1>>, <<"RT_512X1", "<=", 8>>>>>>,
                 <<TRUE, "or", <<<<"RT_512X1", "==", 1>>, <<"RT_512X1", "==", 4>>>>>>>>,
      names |-> <<"cvmqs_rr", "cvmqs_ld">> ],
    [ first |-> 1182, last |-> 1187,
      when |-> <<<<FALSE, "and", <<<<"RT_512X1", ">=", 1>>, <<"RT_512X1", "<=", 8>>>>>>>>,
      names |-> <<"rnnqs_rr", "rnnqs_ld">> ],
    [ first |-> 1194, last |-> 1214,
      when |-> <<<<FALSE, "and", <<<<"RT_512X1", ">=", 1>>, <<"RT_512X1", "<=", 8>>>>>>,
                 <<FALSE, "or", <<<<"RT_512X1", "==", 1>>, <<"RT_512X1", "==", 4>>>>>>>>,
      names |-> <<"cvnqs_rr", "cvnqs_ld">> ],
    [ first |-> 1220, last |-> 1224,
      when |-> <<<<FALSE, "and", <<<<"RT_512X1", ">=", 1>>, <<"RT_512X1", "<=", 8>>>>>>,
                 <<TRUE, "or", <<<<"RT_512X1", "==", 1>>, <<"RT_512X1", "==", 4>>>>>>>>,
      names |-> <<"cvnqs_rr", "cvnqs_ld">> ],
    [ first |-> 1237, last |-> 1242,
      when |-> <<<<FALSE, "and", <<<<"RT_512X1", ">=", 1>>, <<"RT_512X1", "<=", 8>>>>>>>>,
      names |-> <<"rndqs_rr", "rndqs_ld">> ],
    [ first |-> 1249, last |-> 1253,
      when |-> <<<<FALSE, "and", <<<<"RT_512X1", ">=", 1>>, <<"RT_512X1", "<=", 8>>>>>>,
                 <<FALSE, "or", <<<<"RT_512X1", "==", 1>>, <<"RT_512X1", "==", 4>>>>>>>>,
      names |-> <<"cvtqs_rr", "cvtqs_ld">> ],
    [ first |-> 1259, last |-> 1263,
      when |-> <<<<FALSE, "and", <<<<"RT_512X1", ">=", 1>>, <<"RT_512X1", "<=", 8>>>>>>,
                 <<TRUE, "or", <<<<"RT_512X1", "==", 1>>, <<"RT_512X1", "==", 4>>>>>>>>,
      names |-> <<"cvtqs_rr", "cvtqs_ld">> ],
    [ first |-> 1277, last |-> 1277,
      when |-> <<<<FALSE, "and", <<<<"RT_512X1", ">=", 1>>, <<"RT_512X1", "<=", 8>>>>>>>>,
      names |-> <<"rnrqs_rr">> ],
    [ first |-> 1284, last |-> 1284,
      when |-> <<<<FALSE, "and", <<<<"RT_512X1", ">=", 1>>, <<"RT_512X1", "<=", 8>>>>>>,
                 <<FALSE, "or", <<<<"RT_512X1", "==", 1>>, <<"RT_512X1", "==", 4>>>>>>>>,
      names |-> <<"cvrqs_rr">> ],
    [ first |-> 1290, last |-> 1290,
      when |-> <<<<FALSE, "and", <<<<"RT_512X1", ">=", 1>>, <<"RT_512X1", "<=", 8>>>>>>,
                 <<TRUE, "or", <<<<"RT_512X1", "==", 1>>, <<"RT_512X1", "==", 4>>>>>>>>,
      names |-> <<"cvrqs_rr">> ],
    [ first |-> 1301, last |-> 1321,
      when |-> <<<<FALSE, "and", <<<<"RT_512X1", ">=", 1>>, <<"RT_512X1", "<=", 8>>>>>>,
                 <<FALSE, "or", <<<<"RT_512X1", "==", 1>>, <<"RT_512X1", "==", 4>>>>>>>>,
      names |-> <<"cvnqn_rr", "cvnqn_ld">> ],
    [ first |-> 1327, last |-> 1331,
      when |-> <<<<FALSE, "and", <<<<"RT_512X1", ">=", 1>>, <<"RT_512X1", "<=", 8>>>>>>,
                 <<TRUE, "or", <<<<"RT_512X1", "==", 1>>, <<"RT_512X1", "==", 4>>>>>>>>,
      names |-> <<"cvnqn_rr", "cvnqn_ld">> ],
    [ first |-> 1344, last |-> 1354,
      when |-> <<<<FALSE, "and", <<<<"RT_512X1", ">=", 1>>, <<"RT_512X1", "<=", 8>>>>>>,
                 <<FALSE, "or", <<<<"RT_512X1", "==", 1>>, <<"RT_512X1", "==", 4>>>>>>>>,
      names |-> <<"cvtqn_rr", "cvtqn_ld">> ],
    [ first |-> 1360, last |-> 1364,
      when |-> <<<<FALSE, "and", <<<<"RT_512X1", ">=", 1>>, <<"RT_512X1", "<=", 8>>>>>>,
                 <<TRUE, "or", <<<<"RT_512X1", "==", 1>>, <<"RT_512X1", "==", 4>>>>>>>>,
      names |-> <<"cvtqn_rr", "cvtqn_ld">> ],
    [ first |-> 1376, last |-> 1421,
      when |-> <<<<FALSE, "and", <<<<"RT_512X1", ">=", 1>>, <<"RT_512X1", "<=", 8>>>>>>,
                 <<FALSE, "or", <<<<"RT_512X1", "==", 1>>, <<"RT_512X1", "==", 4>>>>>>>>,
      names |-> <<"cvnqx_rr", "cvnqx_ld">> ],
    [ first |-> 1427, last |-> 1431,
      when |-> <<<<FALSE, "and", <<<<"RT_512X1", ">=", 1>>, <<"RT_512X1", "<=", 8>>>>>>,
                 <<TRUE, "or", <<<<"RT_512X1", "==", 1>>, <<"RT_512X1", "==", 4>>>>>>>>,
      names |-> <<"cvnqx_rr", "cvnqx_ld">> ],
    [ first |-> 1444, last |-> 1454,
      when |-> <<<<FALSE, "and", <<<<"RT_512X1", ">=", 1>>, <<"RT_512X1", "<=", 8>>>>>>,
                 <<FALSE, "or", <<<<"RT_512X1", "==", 1>>, <<"RT_512X1", "==", 4>>>>>>>>,
      names |-> <<"cvtqx_rr", "cvtqx_ld">> ],
    [ first |-> 1460, last |-> 1464,
      when |-> <<<<FALSE, "and", <<<<"RT_512X1", ">=", 1>>, <<"RT_512X1", "<=", 8>>>>>>,
                 <<TRUE, "or", <<<<"RT_512X1", "==", 1>>, <<"RT_512X1", "==", 4>>>>>>>>,
      names |-> <<"cvtqx_rr", "cvtqx_ld">> ],
    [ first |-> 1476, last |-> 1481,
      when |-> <<<<FALSE, "and", <<<<"RT_512X1", ">=", 1>>, <<"RT_512X1", "<=", 8>>>>>>>>,
      names |-> <<"ruzqs_rr", "ruzqs_ld">> ],
    [ first |-> 1488, last |-> 1559,
      when |-> <<<<FALSE, "and", <<<<"RT_512X1", ">=", 1>>, <<"RT_512X1", "<=", 8>>>>>>,
                 <<FALSE, "or", <<<<"RT_512X1", "==", 1>>, <<"RT_512X1", "==", 4>>>>>>>>,
      names |-> <<"cuzqs_rr", "cuzqs_ld">> ],
    [ first |-> 1565, last |-> 1569,
      when |-> <<<<FALSE, "and", <<<<"RT_512X1", ">=", 1>>, <<"RT_512X1", "<=", 8>>>>>>,
                 <<TRUE, "or", <<<<"RT_512X1", "==", 1>>, <<"RT_512X1", "==", 4>>>>>>>>,
      names |-> <<"cuzqs_rr", "cuzqs_ld">> ],
    [ first |-> 1581, last |-> 1586,
      when |-> <<<<FALSE, "and", <<<<"RT_512X1", ">=", 1>>, <<"RT_512X1", "<=", 8>>>>>>>>,
      names |-> <<"rupqs_rr", "rupqs_ld">> ],
    [ first |-> 1593, last |-> 1597,
      when |-> <<<<FALSE, "and", <<<<"RT_512X1", ">=", 1>>, <<"RT_512X1", "<=", 8>>>>>>,
                 <<FALSE, "or", <<<<"RT_512X1", "==", 1>>, <<"RT_512X1", "==", 4>>>>>>>>,
      names |-> <<"cupqs_rr", "cupqs_ld">> ],
    [ first |-> 1603, last |-> 1607,
      when |-> <<<<FALSE, "and", <<<<"RT_512X1", ">=", 1>>, <<"RT_512X1", "<=", 8>>>>>>,
                 <<TRUE, "or", <<<<"RT_512X1", "==", 1>>, <<"RT_512X1", "==", 4>>>>>>>>,
      names |-> <<"cupqs_rr", "cupqs_ld">> ],
    [ first |-> 1618, last |-> 1623,
      when |-> <<<<FALSE, "and", <<<<"RT_512X1", ">=", 1>>, <<"RT_512X1", "<=", 8>>>>>>>>,
      names |-> <<"rumqs_rr", "rumqs_ld">> ],
    [ first |-> 1630, last |-> 1634,
      when |-> <<<<FALSE, "and", <<<<"RT_512X1", ">=", 1>>, <<"RT_512X1", "<=", 8>>>>>>,
                 <<FALSE, "or", <<<<"RT_512X1", "==", 1>>, <<"RT_512X1", "==", 4>>>>>>>>,
      names |-> <<"cumqs_rr", "cumqs_ld">> ],
    [ first |-> 1640, last |-> 1644,
      when |-> <<<<FALSE, "and", <<<<"RT_512X1", ">=", 1>>, <<"RT_512X1", "<=", 8>>>>>>,
                 <<TRUE, "or", <<<<"RT_512X1", "==", 1>>, <<"RT_512X1", "==", 4>>>>>>>>,
      names |-> <<"cumqs_rr", "cumqs_ld">> ],
    [ first |-> 1655, last |-> 1660,
      when |-> <<<<FALSE, "and", <<<<"RT_512X1", ">=", 1>>, <<"RT_512X1", "<=", 8>>>>>>>>,
      names |-> <<"runqs_rr", "runqs_ld">> ],
    [ first |-> 1667, last |-> 1738,
      when |-> <<<<FALSE, "and", <<<<"RT_512X1", ">=", 1>>, <<"RT_512X1", "<=", 8>>>>>>,
                 <<FALSE, "or", <<<<"RT_512X1", "==", 1>>, <<"RT_512X1", "==", 4>>>>>>>>,
      names |-> <<"cunqs_rr", "cunqs_ld">> ],
    [ first |-> 1744, last |-> 1748,
      when |-> <<<<FALSE, "and", <<<<"RT_512X1", ">=", 1>>, <<"RT_512X1", "<=", 8>>>>>>,
                 <<TRUE, "or", <<<<"RT_512X1", "==", 1>>, <<"RT_512X1", "==", 4>>>>>>>>,
      names |-> <<"cunqs_rr", "cunqs_ld">> ],
    [ first |-> 1761, last |-> 1766,
      when |-> <<<<FALSE, "and", <<<<"RT_512X1", ">=", 1>>, <<"RT_512X1", "<=", 8>>>>>>>>,
      names |-> <<"rudqs_rr", "rudqs_ld">> ],
    [ first |-> 1773, last |-> 1777,
      when |-> <<<<FALSE, "and", <<<<"RT_512X1", ">=", 1>>, <<"RT_512X1", "<=", 8>>>>>>,
                 <<FALSE, "or", <<<<"RT_512X1", "==", 1>>, <<"RT_512X1", "==", 4>>>>>>>>,
      names |-> <<"cutqs_rr", "cutqs_ld">> ],
    [ first |-> 1783, last |-> 1787,
      when |-> <<<<FALSE, "and", <<<<"RT_512X1", ">=", 1>>, <<"RT_512X1", "<=", 8>>>>>>,
                 <<TRUE, "or", <<<<"RT_512X1", "==", 1>>, <<"RT_512X1", "==", 4>>>>>>>>,
      names |-> <<"cutqs_rr", "cutqs_ld">> ],
    [ first |-> 1801, last |-> 1801,
      when |-> <<<<FALSE, "and", <<<<"RT_512X1", ">=", 1>>, <<"RT_512X1", "<=", 8>>>>>>>>,
      names |-> <<"rurqs_rr">> ],
    [ first |-> 1808, last |-> 1808,
      when |-> <<<<FALSE, "and", <<<<"RT_512X1", ">=", 1>>, <<"RT_512X1", "<=", 8>>>>>>,
                 <<FALSE, "or", <<<<"RT_512X1", "==", 1>>, <<"RT_512X1", "==", 4>>>>>>>>,
      names |-> <<"curqs_rr">> ],
    [ first |-> 1814, last |-> 1814,
      when |-> <<<<FALSE, "and", <<<<"RT_512X1", ">=", 1>>, <<"RT_512X1", "<=", 8>>>>>>,
                 <<TRUE, "or", <<<<"RT_512X1", "==", 1>>, <<"RT_512X1", "==", 4>>>>>>>>,
      names |-> <<"curqs_rr">> ],
    [ first |-> 1824, last |-> 1851,
      when |-> <<<<FALSE, "and", <<<<"RT_512X1", ">=", 1>>, <<"RT_512X1", "<=", 8>>>>>>>>,
      names |-> <<"addqx_rr", "addqx_ld", "addqx3rr", "addqx3ld", "subqx_rr",
                  "subqx_ld", "subqx3rr", "subqx3ld">> ],
    [ first |-> 1860, last |-> 1877,
      when |-> <<<<FALSE, "and", <<<<"RT_512X1", ">=", 1>>, <<"RT_512X1", "<=", 8>>>>>>,
                 <<FALSE, "or", <<<<"RT_512X1", "==", 1>>, <<"RT_512X1", "==", 4>>>>>>>>,
      names |-> <<"mulqx_rr", "mulqx_ld", "mulqx3rr", "mulqx3ld", "mulqx_rx">> ],
    [ first |-> 1908, last |-> 1918,
      when |-> <<<<FALSE, "and", <<<<"RT_512X1", ">=", 1>>, <<"RT_512X1", "<=", 8>>>>>>,
                 <<TRUE, "or", <<<<"RT_512X1", "==", 1>>, <<"RT_512X1", "==", 4>>>>>>>>,
      names |-> <<"mulqx_rr", "mulqx_ld", "mulqx3rr", "mulqx3ld">> ],
    [ first |-> 1931, last |-> 2303,
      when |-> <<<<FALSE, "and", <<<<"RT_512X1", ">=", 1>>, <<"RT_512X1", "<=", 8>>>>>>>>,
      names |-> <<"shlqx_ri", "shlqx_ld", "shlqx3ri", "shlqx3ld", "shrqx_ri",
                  "shrqx_ld", "shrqx3ri", "shrqx3ld", "shrqn_ri", "shrqn_ld",
                  "shrqn3ri", "shrqn3ld", "svlqx_rr", "svlqx_ld", "svlqx3rr",
                  "svlqx3ld", "svrqx_rr", "svrqx_ld", "svrqx3rr", "svrqx3ld",
                  "svrqn_rr", "svrqn_ld", "svrqn3rr", "svrqn3ld", "minqx_rr",
                  "minqx_ld", "minqx3rr", "minqx3ld", "minqn_rr", "minqn_ld",
                  "minqn3rr", "minqn3ld", "maxqx_rr", "maxqx_ld", "maxqx3rr",
                  "maxqx3ld", "maxqn_rr", "maxqn_ld", "maxqn3rr", "maxqn3ld",
                  "ceqqx_rr", "ceqqx_ld", "ceqqx3rr", "ceqqx3ld", "cneqx_rr",
                  "cneqx_ld", "cneqx3rr", "cneqx3ld", "cltqx_rr", "cltqx_ld",
                  "cltqx3rr", "cltqx3ld", "cltqn_rr", "cltqn_ld", "cltqn3rr",
                  "cltqn3ld", "cleqx_rr", "cleqx_ld", "cleqx3rr", "cleqx3ld",
                  "cleqn_rr", "cleqn_ld", "cleqn3rr", "cleqn3ld", "cgtqx_rr",
                  "cgtqx_ld", "cgtqx3rr", "cgtqx3ld", "cgtqn_rr", "cgtqn_ld",
                  "cgtqn3rr", "cgtqn3ld", "cgeqx_rr", "cgeqx_ld", "cgeqx3rr",
                  "cgeqx3ld", "cgeqn_rr", "cgeqn_ld", "cgeqn3rr", "cgeqn3ld">> ]
>>

X64Configs ==
    [RT_512X1 : {1, 2, 4, 8}, DIV : {0, 1, 2}, SQR : {0, 1, 2},
     RCP : {0, 1, 2}, RSQ : {0, 1, 2}, FMA : {0, 1, 2}, FMS : {0, 1, 2}]

Compare(cfg, a) ==
    LET x == cfg[a[1]]
    IN  CASE a[2] = "==" -> x = a[3]
          [] a[2] = "!=" -> x # a[3]
          [] a[2] = "<" -> x < a[3]
          [] a[2] = "<=" -> x <= a[3]
          [] a[2] = ">" -> x > a[3]
          [] a[2] = ">=" -> x >= a[3]

(* a chain whose #else and #elif branches forget the branches before them *)
Holds_earlier_branches_forgotten(cfg, t) ==
    t[1] \/ \A k \in DOMAIN t[3] : Compare(cfg, t[3][k])

Holds(cfg, t) ==
    LET v == IF t[2] = "or" THEN \E k \in DOMAIN t[3] : Compare(cfg, t[3][k])
             ELSE \A k \in DOMAIN t[3] : Compare(cfg, t[3][k])
    IN  IF t[1] THEN ~v ELSE v

Kept(table, cfg) ==
    {i \in DOMAIN table :
        \A k \in DOMAIN table[i].when : Holds(cfg, table[i].when[k])}

NamesOf(e) == {e.names[k] : k \in DOMAIN e.names}

Twice(e) ==
    {e.names[k] : k \in {j \in DOMAIN e.names :
                            \E h \in DOMAIN e.names : h < j /\ e.names[h] = e.names[j]}}

ARMNames == UNION {NamesOf(ARMTable[i]) : i \in DOMAIN ARMTable}

X64Names == UNION {NamesOf(X64Table[i]) : i \in DOMAIN X64Table}

(* pairs of entries that define a name in common *)
Sharing(table) ==
    {p \in (DOMAIN table) \X (DOMAIN table) :
        p[1] < p[2] /\ NamesOf(table[p[1]]) \cap NamesOf(table[p[2]]) # {}}

ARMSharing == Sharing(ARMTable)

X64Sharing == Sharing(X64Table)

(* the names left with no definition and those left with more than one *)
Undefined(table, names, cfg) ==
    names \ UNION {NamesOf(table[i]) : i \in Kept(table, cfg)}

Redefined(table, sharing, cfg) ==
    LET kept == Kept(table, cfg)
    IN  UNION ({NamesOf(table[p[1]]) \cap NamesOf(table[p[2]]) :
                   p \in {q \in sharing : q[1] \in kept /\ q[2] \in kept}}
               \cup {Twice(table[i]) : i \in kept})

Preprocess(tbl, table, names, sharing, cfg) ==
    /\ req' = [kind |-> "cfg", table |-> tbl, cfg |-> cfg,
               none |-> Undefined(table, names, cfg),
               many |-> Redefined(table, sharing, cfg)]
    /\ out' = <<>>
    /\ status' = "ok"
    /\ cpu' = [arch |-> "none"]
    /\ UNCHANGED Q

PreprocessARM ==
    /\ status = "idle"
    /\ \E cfg \in ARMConfigs :
        /\ Preprocess("arm", ARMTable, ARMNames, ARMSharing, cfg)
        /\ UNCHANGED RT_512X1

PreprocessX64 ==
    /\ status = "idle"
    /\ \E cfg \in X64Configs :
        /\ Preprocess("x64", X64Table, X64Names, X64Sharing, cfg)
        /\ RT_512X1' = cfg.RT_512X1

InitCfg ==
    /\ Q = 4
    /\ RT_512X1 = 0
    /\ req = [kind |-> "none"]
    /\ out = <<>>
    /\ status = "idle"
    /\ cpu = [arch |-> "none"]

NextCfg == PreprocessARM \/ PreprocessX64

SpecCfg == InitCfg /\ [][NextCfg]_vars

(***************************************************************************)
(* rtarch_arm_128.h with RT_128 >= 4: the conversions that carry their     *)
(* rounding mode in the instruction, as single words.                      *)
(***************************************************************************)
RT_SIMD_MODE_FLUSH == [ ROUNDN |-> 4, ROUNDM |-> 6, ROUNDP |-> 5, ROUNDZ |-> 7 ]

RT_SIMD_MODE_F ==
    [ ROUNDN_F |-> 4, ROUNDM_F |-> 6, ROUNDP_F |-> 5, ROUNDZ_F |-> 7 ]

(* RT_SIMD_MODE_##mode under a value of RT_SIMD_FLUSH_ZERO *)
RT_SIMD_MODE_of(FLUSH_ZERO, mode) ==
    IF mode \in DOMAIN RT_SIMD_MODE_F THEN RT_SIMD_MODE_F[mode]
    ELSE IF FLUSH_ZERO = 0 THEN RT_SIMD_MODE[mode]
    ELSE RT_SIMD_MODE_FLUSH[mode]

cvzos_rr_v4(XD, XS) ==
    EMITW(Or(Word(\hF3BB, \h0740), MXM(REG(XD), 0, REG(XS))))

cvpos_rr_v4(XD, XS) ==
    EMITW(Or(Word(\hF3BB, \h0240), MXM(REG(XD), 0, REG(XS))))

cvmos_rr_v4(XD, XS) ==
    EMITW(Or(Word(\hF3BB, \h0340), MXM(REG(XD), 0, REG(XS))))

cvnos_rr_v4(XD, XS) ==
    EMITW(Or(Word(\hF3BB, \h0140), MXM(REG(XD), 0, REG(XS))))

(* the mode field without the step from 4 to 7 for round-towards-zero *)
cvros_rr_v4_unadjusted(FLUSH_ZERO, XD, XS, mode) ==
    LET m == RT_SIMD_MODE_of(FLUSH_ZERO, mode)
    IN  EMITW(Or(Or(Word(\hF3BB, \h0040), MXM(REG(XD), 0, REG(XS))),
                 Shl(And(m, 3) + 1, 8)))

cvros_rr_v4(FLUSH_ZERO, XD, XS, mode) ==
    LET m == RT_SIMD_MODE_of(FLUSH_ZERO, mode)
    IN  EMITW(Or(Or(Word(\hF3BB, \h0040), MXM(REG(XD), 0, REG(XS))),
                 Shl((And(m, 3) + 1) + 3 * ((And(m, 3) + 1) \div 4), 8)))

(* an immediate operand of rtarch_arm.h, of which these rules read VAL *)
IS_arm(im) == <<im, 0, EMPTY>>

(* the value the assembler gives a comparison inside EMITW: -1 when true *)
Truth(b) == IF b THEN 0 - 1 ELSE 0

shlox_ri(XG, IS) ==
    EMITW(Or(Or(Word(\hF2A0, \h0550), MXM(REG(XG), 0, REG(XG))),
             Shl(And(\h1F, VAL(IS)), 16)))

(* shrox_ri with a true comparison taken as 1 *)
shrox_ri_true_is_one(XG, IS) ==
    EMITW(Or(Or(Or(Or(Word(\hF2A0, \h0050), MXM(REG(XG), 0, REG(XG))),
                   And(IF VAL(IS) = 0 THEN 1 ELSE 0, \h500)),
                And(IF VAL(IS) # 0 THEN 1 ELSE 0, \h01000000)),
             Shl(And(\h1F, 0 - VAL(IS)), 16)))

shrox_ri(XG, IS) ==
    EMITW(Or(Or(Or(Or(Word(\hF2A0, \h0050), MXM(REG(XG), 0, REG(XG))),
                   And(Truth(VAL(IS) = 0), \h500)),
                And(Truth(VAL(IS) # 0), \h01000000)),
             Shl(And(\h1F, 0 - VAL(IS)), 16)))

shron_ri(XG, IS) ==
    EMITW(Or(Or(Or(Or(Word(\hF2A0, \h0050), MXM(REG(XG), 0, REG(XG))),
                   And(Truth(VAL(IS) = 0), \h500)),
                And(Truth(VAL(IS) # 0), 0)),
             Shl(And(\h1F, 0 - VAL(IS)), 16)))

(* what a word of the class "shift by immediate" of Advanced SIMD does to  *)
(* 32-bit lanes, from the instruction set reference: VSHR has bits 8-11    *)
(* clear and shifts right by 64 - imm6, signed or unsigned by bit 24; VSHL *)
(* has them 0101 and shifts left by imm6 - 32                              *)
ARMShiftOf(w) ==
    LET imm6 == Bits(w, 16, 6)
        opc == Bits(w, 8, 4)
    IN  IF \/ Bits(w, 25, 7) # \h79 \/ Bits(w, 23, 1) # 1 \/ Bits(w, 4, 1) # 1
           \/ Bits(w, 7, 1) # 0 \/ Bits(w, 6, 1) # 1 \/ imm6 < 32
        THEN [op |-> "other", by |-> 0, reg |-> 0, from |-> 0]
        ELSE CASE opc = 0 ->
                      [op |-> IF Bits(w, 24, 1) = 1 THEN "vshr.u32"
                              ELSE "vshr.s32",
                       by |-> 64 - imm6, reg |-> ARMVd(w), from |-> ARMVm(w)]
               [] opc = 5 /\ Bits(w, 24, 1) = 0 ->
                      [op |-> "vshl.i32", by |-> imm6 - 32,
                       reg |-> ARMVd(w), from |-> ARMVm(w)]
               [] OTHER -> [op |-> "other", by |-> 0, reg |-> 0, from |-> 0]

EmitSHR ==
    /\ status = "idle"
    /\ \E op \in {"shrox_ri", "shron_ri", "shlox_ri"}, XG \in 0..7, n \in 0..31 :
        /\ req' = [kind |-> "shift", op |-> op, XG |-> XG, IS |-> n]
        /\ out' = (CASE op = "shrox_ri" -> shrox_ri(Xmm_arm[XG], IS_arm(n))
                     [] op = "shron_ri" -> shron_ri(Xmm_arm[XG], IS_arm(n))
                     [] op = "shlox_ri" -> shlox_ri(Xmm_arm[XG], IS_arm(n)))
        /\ status' = "ok"
        /\ UNCHANGED <<Q, RT_512X1, cpu>>

(* single rules built for every operand, nothing run *)
EmitCVR ==
    /\ status = "idle"
    /\ \E FLUSH_ZERO \in {0, 1}, XD \in 0..7, XS \in 0..7,
          mode \in DOMAIN RT_SIMD_MODE \cup DOMAIN RT_SIMD_MODE_F :
        /\ req' = [kind |-> "cvr", op |-> "cvros_rr", mode |-> mode,
                    FLUSH_ZERO |-> FLUSH_ZERO, XD |-> XD, XS |-> XS]
        /\ out' = cvros_rr_v4(FLUSH_ZERO, Xmm_arm[XD], Xmm_arm[XS], mode)
        /\ status' = "ok"
        /\ UNCHANGED <<Q, RT_512X1, cpu>>

InitEnc ==
    /\ Q = 4
    /\ RT_512X1 \in {1, 2, 4, 8}
    /\ req = [kind |-> "none"]
    /\ out = <<>>
    /\ status = "idle"
    /\ cpu = [arch |-> "none"]

NextEnc == EmitCVR \/ EmitSHR

SpecEnc == InitEnc /\ [][NextEnc]_vars

(***************************************************************************)
(* Branching on a vector of masks: CHECK_MASK of rtarch_arm_128.h and      *)
(* mkjqx_rx of rtarch_x64_512x1v8.h, with the BASE rules they call kept as *)
(* items that name the rule.                                               *)
(***************************************************************************)
RT_SIMD_MASK == [ NONE |-> 0, FULL |-> 1 ]

RT_SIMD_MASK_64_512 == [ NONE |-> 0, FULL |-> \h00FF ]

Reax_arm == <<T.eax, 0, EMPTY>>

BaseRule(rule, reg, im) == <<[rule |-> rule, reg |-> reg, im |-> im]>>

(* movms_rr with one narrowing step only *)
movms_rr_one_narrowing(RD, XS) ==
    EMITW(Or(Word(\hF3B6, \h0200), MXM(TmmM + 0, 0, REG(XS))))
    \o EMITW(Or(Word(\hEE10, \h0B10), MXM(REG(RD), TmmM + 0, 0)))

movms_rr(RD, XS) ==
    EMITW(Or(Word(\hF3B6, \h0200), MXM(TmmM + 0, 0, REG(XS))))
    \o EMITW(Or(Word(\hF3B2, \h0200), MXM(TmmM + 0, 0, TmmM)))
    \o EMITW(Or(Word(\hEE10, \h0B10), MXM(REG(RD), TmmM + 0, 0)))

CHECK_MASK(lb, mask, XS) ==
    movms_rr(Reax_arm, XS)
    \o BaseRule("addwz_ri", REG(Reax_arm), RT_SIMD_MASK[mask])
    \o BaseRule("jezxx_lb", 0, lb)

inf_GPC07 == <<0, 0, <<[disp |-> "inf_GPC07", nx |-> 0]>> >>

mkjqx_rx(XS, mask, lb) ==
    ck1qx_rm(XS, D.Mebp, inf_GPC07)
    \o BaseRule("mk1wx_rx", REG(D.Reax), 0)
    \o BaseRule("cmpwx_ri", REG(D.Reax), VAL(IH(RT_SIMD_MASK_64_512[mask])))
    \o BaseRule("jeqxx_lb", 0, lb)

(* the ARM processor on bytes: D registers of eight bytes, core registers; *)
(* VMOVN and VMOV to a core register from the instruction set reference    *)
MaskQ(c, m) == [j \in 0..15 |-> IF j < 8 THEN c.d[m][j] ELSE c.d[m + 1][j - 8]]

MaskStepARM(c) ==
    LET i == out[c.pc]
    IN  IF "rule" \in DOMAIN i
        THEN CASE i.rule = "addwz_ri" ->
                      [c EXCEPT !.pc = c.pc + 1,
                                !.r[i.reg] = Add32(c.r[i.reg], i.im),
                                !.zf = (Add32(c.r[i.reg], i.im) = 0)]
               [] i.rule = "jezxx_lb" ->
                      [c EXCEPT !.pc = c.pc + 1, !.jumped = c.zf]
        ELSE LET w == LE32(Bytes(out, c.pc, 4))
                 nx == [c EXCEPT !.pc = c.pc + 4]
                 src == MaskQ(c, ARMVm(w))
             IN  CASE /\ Bits(w, 23, 9) = \h1E7 /\ Bits(w, 20, 2) = 3
                      /\ Bits(w, 16, 2) = 2 /\ Bits(w, 6, 6) = 8
                      /\ Bits(w, 4, 1) = 0 /\ Bits(w, 18, 2) = 1 ->
                          (* VMOVN.I32: the low half of each 32-bit lane *)
                          [nx EXCEPT !.d[ARMVd(w)] =
                              [j \in 0..7 |-> src[4 * (j \div 2) + (j % 2)]]]
                   [] /\ Bits(w, 23, 9) = \h1E7 /\ Bits(w, 20, 2) = 3
                      /\ Bits(w, 16, 2) = 2 /\ Bits(w, 6, 6) = 8
                      /\ Bits(w, 4, 1) = 0 /\ Bits(w, 18, 2) = 0 ->
                          (* VMOVN.I16: the low byte of each 16-bit lane *)
                          [nx EXCEPT !.d[ARMVd(w)] = [j \in 0..7 |-> src[2 * j]]]
                   [] /\ Bits(w, 24, 8) = \hEE /\ Bits(w, 20, 3) = 1
                      /\ Bits(w, 8, 4) = \hB /\ Bits(w, 0, 7) = \h10 ->
                          (* VMOV.32 Rt, Dn[0] *)
                          [nx EXCEPT !.r[Bits(w, 12, 4)] =
                              LE32([k \in 1..4 |-> c.d[ARMVn(w)][k - 1]])]
                   [] OTHER -> [c EXCEPT !.pc = Len(out) + 2]

(* a k register as the integer KMOVW moves to a general register *)
MaskWord(S) ==
    LET f[n \in 0..8] == IF n = 8 THEN 0
                         ELSE (IF n \in S THEN Pow2(n) ELSE 0) + f[n + 1]
    IN  f[0]

(* the x86_64 processor on mask registers: 512-bit registers of eight      *)
(* lanes, k registers as sets of lanes, memory operands by slot            *)
MaskStepX64(c) ==
    LET i == out[c.pc]
    IN  IF "rule" \in DOMAIN i
        THEN CASE i.rule = "mk1wx_rx" ->
                      [c EXCEPT !.pc = c.pc + 1,
                                !.r[i.reg] = MaskWord(c.k[1])]
               [] i.rule = "cmpwx_ri" ->
                      [c EXCEPT !.pc = c.pc + 1, !.zf = (c.r[i.reg] = i.im)]
               [] i.rule = "jeqxx_lb" ->
                      [c EXCEPT !.pc = c.pc + 1, !.jumped = c.zf]
        ELSE LET p == IF i.pfx = "ADR" THEN c.pc + 1 ELSE c.pc
                 pf == out[p]
                 opc == out[p + 1].b
                 mod == Bits(out[p + 2].b, 6, 2)
                 reg == Bits(out[p + 2].b, 3, 3)
                 rem == Bits(out[p + 2].b, 0, 3)
                 ren == pf.args[3]
                 slot == IF mod = 3 THEN "none"
                         ELSE IF "disp" \in DOMAIN out[p + 3]
                         THEN out[p + 3].disp ELSE "mem"
                 next == CASE mod = 3 -> p + 3
                           [] "disp" \in DOMAIN out[p + 3] -> p + 4
                           [] OTHER -> p + 7
                 src == IF mod = 3 THEN c.zmm[rem] ELSE c.cell[slot]
                 nx == [c EXCEPT !.pc = next,
                                 !.adr = c.adr \cup (IF mod = 3 THEN {}
                                                     ELSE {i.pfx = "ADR"})]
                 key == <<pf.pfx, pf.args[5], pf.args[6], opc>>
             IN  CASE key = <<"EVW", 1, 2, \h29>> /\ mod # 3 ->
                          (* VPCMPEQQ k, zmm, m512 *)
                          [nx EXCEPT !.k[reg] =
                              {l \in 0..7 : c.zmm[ren][l] = src[l]}]
                   [] key = <<"EVW", 2, 2, \h39>> /\ mod = 3 ->
                          (* VPMOVQ2M k, zmm *)
                          [nx EXCEPT !.k[reg] = {l \in 0..7 : src[l] < 0}]
                   [] key = <<"EZW", 1, 1, \h28>> ->
                          (* VMOVAPD zmm {k1}{z}, zmm/m512 *)
                          [nx EXCEPT !.zmm[reg] =
                              [l \in 0..7 |-> IF l \in c.k[1] THEN src[l] ELSE 0]]
                   [] key = <<"EVW", 2, 2, \h38>> /\ mod = 3 ->
                          (* VPMOVM2Q zmm, k *)
                          [nx EXCEPT !.zmm[reg] =
                              [l \in 0..7 |-> IF l \in c.k[rem] THEN 0 - 1 ELSE 0]]
                   [] key = <<"EKW", 1, 1, \h28>> ->
                          (* VMOVAPD zmm {k1}, zmm/m512 *)
                          [nx EXCEPT !.zmm[reg] =
                              [l \in 0..7 |-> IF l \in c.k[1] THEN src[l]
                                              ELSE c.zmm[reg][l]]]
                   [] key = <<"EKW", 1, 1, \h29>> /\ mod # 3 ->
                          (* VMOVAPD m512 {k1}, zmm *)
                          [nx EXCEPT !.cell[slot] =
                              [l \in 0..7 |-> IF l \in c.k[1] THEN c.zmm[reg][l]
                                              ELSE c.cell[slot][l]]]
                   [] OTHER -> [c EXCEPT !.pc = Len(out) + 2]

MaskLanes(n, v) ==
    [l \in 0..(n - 1) |->
        CASE v = "none" -> 0
          [] v = "full" -> 0 - 1
          [] v = "first" -> IF l = 0 THEN 0 - 1 ELSE 0
          [] v = "last" -> IF l = n - 1 THEN 0 - 1 ELSE 0
          [] v = "low" -> IF 2 * l < n THEN 0 - 1 ELSE 0
          [] v = "high" -> IF 2 * l >= n THEN 0 - 1 ELSE 0
          [] v = "odd" -> IF l % 2 = 1 THEN 0 - 1 ELSE 0]

MaskKinds == {"none", "full", "first", "last", "low", "high", "odd"}

LoadCHK ==
    /\ status = "idle"
    /\ \E mask \in DOMAIN RT_SIMD_MASK, XS \in 0..2, v \in MaskKinds,
          g \in {0, \hFF, \h5A} :
        LET lanes == MaskLanes(4, v)
            q(n) == [j \in 0..7 |->
                       IF n \div 2 = XS
                       THEN Bits(lanes[2 * (n % 2) + j \div 4], 8 * (j % 4), 8)
                       ELSE g]
        IN  /\ req' = [kind |-> "mask", op |-> "CHECK_MASK", mask |-> mask,
                        XS |-> XS, v |-> v, n |-> 4]
            /\ out' = CHECK_MASK("lb", mask, Xmm_arm[XS])
            /\ status' = "ok"
            /\ cpu' = [arch |-> "armm", pc |-> 1,
                       d |-> [n \in 0..31 |-> q(n)],
                       r |-> [n \in 0..15 |-> 257 * n + g],
                       zf |-> FALSE, jumped |-> FALSE]
            /\ UNCHANGED <<Q, RT_512X1>>

MaskCells(mem) == [inf_GPC07 |-> [l \in 0..7 |-> 0 - 1], mem |-> mem]

LoadMKJ ==
    /\ status = "idle"
    /\ \E mask \in DOMAIN RT_SIMD_MASK_64_512, XS \in 0..2, v \in MaskKinds :
        LET e == mkjqx_rx(Xmm_x64[XS], mask, "lb")
            zmm == [n \in 0..7 |-> IF n = XS THEN MaskLanes(8, v)
                                   ELSE [l \in 0..7 |-> n + l]]
        IN  /\ req' = [kind |-> "mask", op |-> "mkjqx_rx", mask |-> mask,
                        XS |-> XS, v |-> v, n |-> 8]
            /\ out' = e
            /\ status' = IF Unexpanded(e) = {} THEN "ok" ELSE "error"
            /\ cpu' = [arch |-> "x64m", pc |-> 1, zmm |-> zmm,
                       k |-> [n \in 0..7 |-> {n}],
                       r |-> [n \in 0..7 |-> 257 * (n + 1)],
                       cell |-> MaskCells([l \in 0..7 |-> 0]),
                       zf |-> FALSE, jumped |-> FALSE, adr |-> {},
                       entry |-> [zmm |-> zmm,
                                  cell |-> MaskCells([l \in 0..7 |-> 0])]]
            /\ UNCHANGED <<Q, RT_512X1>>

ExecMaskARM ==
    /\ cpu.arch = "armm"
    /\ status = "ok"
    /\ cpu.pc <= Len(out)
    /\ cpu' = MaskStepARM(cpu)
    /\ UNCHANGED <<Q, RT_512X1, req, out, status>>

ExecMaskX64 ==
    /\ cpu.arch = "x64m"
    /\ status = "ok"
    /\ cpu.pc <= Len(out)
    /\ cpu' = MaskStepX64(cpu)
    /\ UNCHANGED <<Q, RT_512X1, req, out, status>>

InitMask ==
    /\ Q = 4
    /\ RT_512X1 \in {1, 2, 4, 8}
    /\ req = [kind |-> "none"]
    /\ out = <<>>
    /\ status = "idle"
    /\ cpu = [arch |-> "none"]

NextMask == LoadCHK \/ LoadMKJ \/ ExecMaskARM \/ ExecMaskX64

SpecMask == InitMask /\ [][NextMask]_vars

(***************************************************************************)
(* rtarch_x86.h: verxx_xx, the run-time query of the SIMD capabilities.    *)
(* The wx forms of and, orr, sub, shl and shr forward to the wz rules; the *)
(* word is stored to the inf_VER field of the info structure, whose        *)
(* displacement is fixed by the layout of that structure (rtarch.h).       *)
(***************************************************************************)
inf_VER == <<0, 0, <<[disp |-> "inf_VER", nx |-> 0]>> >>

notwx_rx(RM) == EMITB(\hF7) \o MRM(2, MOD(RM), REG(RM))

cpuid_xx == EMITB(\h0F) \o EMITB(\hA2)

(* verxx_xx with Redi left as the sign of (max leaf - 7): notwx_rx dropped *)
verxx_xx_without_not ==
    movwx_ri(D.Reax, IB(1))
    \o cpuid_xx
    \o shfwz_ri("shrwz", D.Redx, IB(25))
    \o cmdwz_ri("andwz", D.Redx, IB(\h03))
    \o movwx_rr(D.Resi, D.Redx)
    \o movwx_rr(D.Redx, D.Recx)
    \o shfwz_ri("shrwz", D.Redx, IB(17))
    \o cmdwz_ri("andwz", D.Redx, IB(\h04))
    \o shfwz_ri("shrwz", D.Recx, IB(20))
    \o cmdwz_ri("andwz", D.Recx, IH(\h0100))
    \o cmdwz_rr("orrwz", D.Resi, D.Redx)
    \o cmdwz_rr("orrwz", D.Resi, D.Recx)
    \o movwx_ri(D.Reax, IB(0))
    \o cpuid_xx
    \o cmdwz_ri("subwz", D.Reax, IB(7))
    \o shfwz_ri("shrwn", D.Reax, IB(31))
    \o movwx_rr(D.Redi, D.Reax)
    \o movwx_ri(D.Reax, IB(7))
    \o movwx_ri(D.Recx, IB(0))
    \o cpuid_xx
    \o shfwz_ri("shlwz", D.Rebx, IB(4))
    \o cmdwz_ri("andwz", D.Rebx, IH(\h0200))
    \o cmdwz_rr("andwz", D.Rebx, D.Redi)
    \o cmdwz_rr("orrwz", D.Resi, D.Rebx)
    \o movwx_st(D.Resi, D.Mebp, inf_VER)

verxx_xx ==
    movwx_ri(D.Reax, IB(1))
    \o cpuid_xx
    \o shfwz_ri("shrwz", D.Redx, IB(25))    (* <- SSE1, SSE2 to bit0, bit1 *)
    \o cmdwz_ri("andwz", D.Redx, IB(\h03))
    \o movwx_rr(D.Resi, D.Redx)
    \o movwx_rr(D.Redx, D.Recx)
    \o shfwz_ri("shrwz", D.Redx, IB(17))    (* <- SSE4 to bit2 *)
    \o cmdwz_ri("andwz", D.Redx, IB(\h04))
    \o shfwz_ri("shrwz", D.Recx, IB(20))    (* <- AVX1 to bit8 *)
    \o cmdwz_ri("andwz", D.Recx, IH(\h0100))
    \o cmdwz_rr("orrwz", D.Resi, D.Redx)
    \o cmdwz_rr("orrwz", D.Resi, D.Recx)
    \o movwx_ri(D.Reax, IB(0))
    \o cpuid_xx
    \o cmdwz_ri("subwz", D.Reax, IB(7))
    \o shfwz_ri("shrwn", D.Reax, IB(31))
    \o movwx_rr(D.Redi, D.Reax)
    \o notwx_rx(D.Redi)
    \o movwx_ri(D.Reax, IB(7))
    \o movwx_ri(D.Recx, IB(0))
    \o cpuid_xx
    \o shfwz_ri("shlwz", D.Rebx, IB(4))     (* <- AVX2 to bit9 *)
    \o cmdwz_ri("andwz", D.Rebx, IH(\h0200))
    \o cmdwz_rr("andwz", D.Rebx, D.Redi)
    \o cmdwz_rr("orrwz", D.Resi, D.Rebx)
    \o movwx_st(D.Resi, D.Mebp, inf_VER)

(***************************************************************************)
(* The IA-32 processor running verxx_xx.  CPUID (0F A2, no ModRM byte)     *)
(* answers from the identification data of the processor: leaf 0 gives the *)
(* maximum basic leaf in EAX, leaf 1 the feature words in ECX and EDX,     *)
(* leaf 7 the extended feature word in EBX.  A store whose displacement is *)
(* a field of the info structure writes that field.                        *)
(***************************************************************************)
RECURSIVE VerDecodeFrom(_, _)
VerDecodeFrom(s, i) ==
    IF i > Len(s) THEN <<>>
    ELSE IF IsByte(s, i) /\ IsByte(s, i + 1)
            /\ s[i].b = \h0F /\ s[i + 1].b = \hA2
    THEN <<[ok |-> TRUE, asm |-> "cpuid", lb |-> ""]>>
         \o VerDecodeFrom(s, i + 2)
    ELSE IF IsByte(s, i) /\ IsByte(s, i + 1) /\ i + 2 <= Len(s)
            /\ s[i].b = \h89 /\ s[i + 1].b \div 64 = 2 /\ s[i + 1].b % 8 # 4
            /\ "disp" \in DOMAIN s[i + 2]
    THEN <<[ok |-> TRUE, asm |-> "store", lb |-> s[i + 2].disp,
            reg |-> (s[i + 1].b \div 8) % 8, rm |-> s[i + 1].b % 8]>>
         \o VerDecodeFrom(s, i + 3)
    ELSE LET x == IA32DecodeAt(s, i)
         IN  <<x>> \o VerDecodeFrom(s, x.next)

VerCode == VerDecodeFrom(out, 1)

Sub32(a, b) ==
    LET lo == (a % 65536) - (b % 65536)
        hi == (a \div 65536) - (b \div 65536) + (lo \div 65536)
    IN  (((hi + 32768) % 65536) - 32768) * 65536 + (lo % 65536)

(* the immediate of an instruction: a byte is sign-extended *)
IA32Imm(x) ==
    IF Len(x.imm) = 4 THEN LE32(x.imm)
    ELSE IF x.imm[1] >= 128 THEN x.imm[1] - 256 ELSE x.imm[1]

IA32Alu(op, a, b) ==
    CASE op = "and" -> And(a, b)
      [] op = "or" -> Or(a, b)
      [] op = "sub" -> Sub32(a, b)

(* what CPUID leaves in EAX, EBX, ECX, EDX for the leaf in EAX *)
CpuidOf(id, leaf) ==
    CASE leaf = 0 -> <<id.max, \h756E6547, \h6C65746E, \h49656E69>>
      [] leaf = 1 -> <<\h000306C3, \h00100800, id.ecx1, id.edx1>>
      [] leaf = 7 -> <<0, id.ebx7, 0, 0>>
      [] OTHER -> <<0, 0, 0, 0>>

VerStep(c, x) ==
    LET op == IA32Op(x)
        nx == [c EXCEPT !.pc = c.pc + 1]
    IN  CASE op = "cpuid" ->
                 LET r == CpuidOf(c.id, c.regs[0])
                 IN  [nx EXCEPT !.regs[0] = r[1], !.regs[3] = r[2],
                                !.regs[1] = r[3], !.regs[2] = r[4],
                                !.asked = c.asked \cup {c.regs[0]}]
          [] op = "store" ->
                 [nx EXCEPT !.inf = [f \in DOMAIN c.inf \cup {x.lb} |->
                                        IF f = x.lb THEN c.regs[x.reg]
                                        ELSE c.inf[f]]]
          [] ~x.ok -> [c EXCEPT !.pc = 0]
          [] op \in {"and", "or", "sub"} /\ x.opc \in {<<\h81>>, <<\h83>>} ->
                 IA32Write(nx, x, IA32Alu(op, IA32Read(c, x), IA32Imm(x)))
          [] op \in {"and", "or", "sub"} /\ x.opc[1] % 4 = 3 ->
                 [nx EXCEPT !.regs[x.reg] =
                                IA32Alu(op, c.regs[x.reg], IA32Read(c, x))]
          [] op = "not" -> IA32Write(nx, x, (0 - 1) - IA32Read(c, x))
          [] op \in {"mov", "shl", "shr", "sal", "sar"} ->
                 [IA32Step(c, x) EXCEPT !.acc = {}]
          [] OTHER -> [c EXCEPT !.pc = 0]

(* identification data: the maximum basic leaf (below 2^31), and feature   *)
(* words with the bits verxx_xx reads set or clear and every other bit     *)
(* either clear or set                                                     *)
MaxLeaves == {0, 1, 6, 7, 13, \h7FFFFFFF}

FeatureWords(b1, b2) ==
    {Or(Or(IF x THEN Pow2(b1) ELSE 0, IF y THEN Pow2(b2) ELSE 0),
        IF z THEN (0 - 1) - Pow2(b1) - Pow2(b2) ELSE 0) :
        x \in BOOLEAN, y \in BOOLEAN, z \in BOOLEAN}

Feature7Words ==
    {Or(IF x THEN Pow2(5) ELSE 0, IF z THEN (0 - 1) - Pow2(5) ELSE 0) :
        x \in BOOLEAN, z \in BOOLEAN}

LoadVER ==
    /\ status = "idle"
    /\ \E mx \in MaxLeaves, e \in FeatureWords(25, 26),
          c \in FeatureWords(19, 28), b \in Feature7Words :
        /\ req' = [kind |-> "ver"]
        /\ out' = verxx_xx
        /\ status' = "ok"
        /\ cpu' = [arch |-> "ia32v", pc |-> 1,
                   regs |-> [n \in 0..7 |-> 257 * (n + 1)],
                   mem |-> <<>>, acc |-> {}, log |-> <<>>,
                   id |-> [max |-> mx, edx1 |-> e, ecx1 |-> c, ebx7 |-> b],
                   asked |-> {}, inf |-> <<>>]
        /\ UNCHANGED <<Q, RT_512X1>>

ExecVER ==
    /\ cpu.arch = "ia32v"
    /\ status = "ok"
    /\ cpu.pc \in 1..Len(VerCode)
    /\ cpu' = VerStep(cpu, VerCode[cpu.pc])
    /\ UNCHANGED <<Q, RT_512X1, req, out, status>>

InitVer ==
    /\ Q = 1
    /\ RT_512X1 = 0
    /\ req = [kind |-> "none"]
    /\ out = <<>>
    /\ status = "idle"
    /\ cpu = [arch |-> "none"]

NextVer == LoadVER \/ ExecVER

SpecVer == InitVer /\ [][NextVer]_vars

(***************************************************************************)
(* rtarch_x64_512x1v8.h: predicated and mask-merged moves and the select.  *)
(* EPW is the vector prefix of a predicated instruction (mask register and *)
(* zeroing flag first), EKW that of an instruction merged under k1; both   *)
(* are kept, like EVW, as an item that names the prefix and its fields.    *)
(***************************************************************************)
EPW(msk, zer, rxg, rxm, ren, len, pfx, aux) ==
    <<[pfx |-> "EPW", args |-> <<msk, zer, rxg, rxm, ren, len, pfx, aux>>]>>

EKW(rxg, rxm, ren, len, pfx, aux) ==
    <<[pfx |-> "EKW", args |-> <<rxg, rxm, ren, len, pfx, aux>>]>>

(* the mask registers k1..k7 as predicate operands *)
Pmm_x64 == [n \in 1..7 |-> <<n, 3, EMPTY>>]

movqx_rr(XD, XS) ==
    EVW(RXB(XD), RXB(XS), 0, 2, 1, 1) \o EMITB(\h28)
    \o MRM(REG(XD), MOD(XS), REG(XS))

mxvqx_rr(XD, PS, XS) ==
    EPW(REG(PS), 0, RXB(XD), RXB(XS), 0, 2, 1, 1) \o EMITB(\h28)
    \o MRM(REG(XD), MOD(XS), REG(XS))

mxvqx_ld(XD, PS, MS, DS) ==
    ADR \o EPW(REG(PS), 1, RXB(XD), RXB(MS), 0, 2, 1, 1) \o EMITB(\h28)
    \o MRM(REG(XD), MOD(MS), REG(MS))
    \o AUX(SIB(MS), CMD(DS), EMPTY)

mxvqx_st(XS, PS, MD, DD) ==
    ADR \o EPW(REG(PS), 0, RXB(XS), RXB(MD), 0, 2, 1, 1) \o EMITB(\h29)
    \o MRM(REG(XS), MOD(MD), REG(MD))
    \o AUX(SIB(MD), CMD(DD), EMPTY)

selqx_rr(XD, PS, XS, XT) ==
    EPW(REG(PS), 0, RXB(XD), RXB(XT), REN(XS), 2, 1, 2) \o EMITB(\h65)
    \o MRM(REG(XD), MOD(XT), REG(XT))

selqx_ld(XD, PS, XS, MT, DT) ==
    EPW(REG(PS), 0, RXB(XD), RXB(MT), REN(XS), 2, 1, 2) \o EMITB(\h65)
    \o MRM(REG(XD), MOD(MT), REG(MT))
    \o AUX(SIB(MT), CMD(DT), EMPTY)

(* mmvqx_rr merging under whatever k1 holds: ck1qx_rm dropped *)
mmvqx_rr_stale_k1(XG, XS) ==
    EKW(RXB(XG), RXB(XS), 0, 2, 1, 1) \o EMITB(\h28)
    \o MRM(REG(XG), MOD(XS), REG(XS))

mmvqx_rr(XG, XS) ==
    ck1qx_rm(Xmm_x64[0], D.Mebp, inf_GPC07)
    \o EKW(RXB(XG), RXB(XS), 0, 2, 1, 1) \o EMITB(\h28)
    \o MRM(REG(XG), MOD(XS), REG(XS))

mmvqx_ld(XG, MS, DS) ==
    ck1qx_rm(Xmm_x64[0], D.Mebp, inf_GPC07)
    \o ADR \o EKW(RXB(XG), RXB(MS), 0, 2, 1, 1) \o EMITB(\h28)
    \o MRM(REG(XG), MOD(MS), REG(MS))
    \o AUX(SIB(MS), CMD(DS), EMPTY)

mmvqx_st(XS, MG, DG_) ==
    ck1qx_rm(Xmm_x64[0], D.Mebp, inf_GPC07)
    \o ADR \o EKW(RXB(XS), RXB(MG), 0, 2, 1, 1) \o EMITB(\h29)
    \o MRM(REG(XS), MOD(MG), REG(MG))
    \o AUX(SIB(MG), CMD(DG_), EMPTY)

(***************************************************************************)
(* The rules above built one at a time, for every register, mask register  *)
(* and memory descriptor, under the four revisions; nothing is run.        *)
(***************************************************************************)
AdrRules == {"movqx_rr", "movqx_ld", "movqx_st", "mxvqx_rr", "mxvqx_ld",
             "mxvqx_st", "selqx_rr", "selqx_ld", "mmvqx_rr", "mmvqx_ld",
             "mmvqx_st", "ck1qx_rm", "mz1qx_ld"}

AdrMems == {"Oeax", "Mecx", "Mebp", "Iecx", "Iebp"}

ExpandAdr(r) ==
    LET X == Xmm_x64[r.X]
        Y == Xmm_x64[r.Y]
        PS == Pmm_x64[r.P]
        M == D[r.M]
        DP_ == Disp(NaturalDisp(r.M))
    IN  CASE r.op = "movqx_rr" -> movqx_rr(X, Y)
          [] r.op = "movqx_ld" -> movqx_ld(X, M, DP_)
          [] r.op = "movqx_st" -> movqx_st(X, M, DP_)
          [] r.op = "mxvqx_rr" -> mxvqx_rr(X, PS, Y)
          [] r.op = "mxvqx_ld" -> mxvqx_ld(X, PS, M, DP_)
          [] r.op = "mxvqx_st" -> mxvqx_st(X, PS, M, DP_)
          [] r.op = "selqx_rr" -> selqx_rr(X, PS, Y, Y)
          [] r.op = "selqx_ld" -> selqx_ld(X, PS, Y, M, DP_)
          [] r.op = "mmvqx_rr" -> mmvqx_rr(X, Y)
          [] r.op = "mmvqx_ld" -> mmvqx_ld(X, M, DP_)
          [] r.op = "mmvqx_st" -> mmvqx_st(X, M, DP_)
          [] r.op = "ck1qx_rm" -> ck1qx_rm(X, M, DP_)
          [] r.op = "mz1qx_ld" -> mz1qx_ld(X, M, DP_)

EmitADR ==
    /\ status = "idle"
    /\ \E op \in AdrRules, X \in {1, 7}, Y \in {2}, P \in {1, 7},
          M \in AdrMems :
        /\ req' = [kind |-> "adr", op |-> op, X |-> X, Y |-> Y, P |-> P,
                    M |-> M]
        /\ out' = ExpandAdr(req')
        /\ status' = "ok"
        /\ UNCHANGED <<Q, RT_512X1, cpu>>

InitAdr ==
    /\ Q = 4
    /\ RT_512X1 \in {1, 2, 4, 8}
    /\ req = [kind |-> "none"]
    /\ out = <<>>
    /\ status = "idle"
    /\ cpu = [arch |-> "none"]

NextAdr == EmitADR

SpecAdr == InitAdr /\ [][NextAdr]_vars

(* position i of the stream holds a vector prefix *)
VecPrefixAt(i) ==
    /\ "pfx" \in DOMAIN out[i]
    /\ out[i].pfx \in {"EVW", "EZW", "EKW", "EPW"}

(* the instruction whose vector prefix is at i has a memory operand: the   *)
(* mod field of its ModRM byte, after the opcode byte, is not 3            *)
MemOperandAt(i) ==
    /\ VecPrefixAt(i)
    /\ IsByte(out, i + 2)
    /\ out[i + 2].b \div 64 # 3

AdrAt(i) == i >= 1 /\ i <= Len(out) /\ out[i] = ADR[1]

(***************************************************************************)
(* The mask rules run on the x86_64 state of MaskStepX64: ck1qx_rm and     *)
(* mz1qx_ld alone and in sequence, and the three mmvqx forms, on vectors   *)
(* of canonical masks under the four revisions.                            *)
(***************************************************************************)
MergeZmm(v) ==
    [n \in 0..7 |-> IF n = 0 THEN MaskLanes(8, v)
                    ELSE [l \in 0..7 |-> 16 * n + l + 1]]

MergeCells == MaskCells([l \in 0..7 |-> 200 + l])

MergeK1 == {{}, 0..7, {0}, {7}, {1, 3, 5, 7}}

LoadMerge(r, e, zmm, k1) ==
    /\ req' = r
    /\ out' = e
    /\ status' = IF Unexpanded(e) = {} THEN "ok" ELSE "error"
    /\ cpu' = [arch |-> "x64m", pc |-> 1, zmm |-> zmm,
               k |-> [n \in 0..7 |-> IF n = 1 THEN k1 ELSE {n}],
               r |-> [n \in 0..7 |-> 257 * (n + 1)],
               cell |-> MergeCells,
               zf |-> FALSE, jumped |-> FALSE, adr |-> {},
               entry |-> [zmm |-> zmm, cell |-> MergeCells, k1 |-> k1]]
    /\ UNCHANGED <<Q, RT_512X1>>

LoadCK1 ==
    /\ status = "idle"
    /\ \E op \in {"ck1qx_rm", "mz1qx_ld", "ck1qx_rm+mz1qx_ld"},
          XS \in 0..2, XD \in 0..2, v \in MaskKinds, k1 \in MergeK1 :
        LET ck == ck1qx_rm(Xmm_x64[XS], D.Mebp, inf_GPC07)
            mz == mz1qx_ld(Xmm_x64[XD], D.Mebp, inf_GPC07)
            zmm == [n \in 0..7 |-> IF n = XS THEN MaskLanes(8, v)
                                   ELSE [l \in 0..7 |-> 16 * n + l + 1]]
        IN  LoadMerge([kind |-> "merge", op |-> op, XS |-> XS, XD |-> XD,
                       v |-> v],
                      CASE op = "ck1qx_rm" -> ck
                        [] op = "mz1qx_ld" -> mz
                        [] OTHER -> ck \o mz,
                      zmm, k1)

LoadMMVQ ==
    /\ status = "idle"
    /\ \E op \in {"mmvqx_rr", "mmvqx_ld", "mmvqx_st"},
          XG \in 0..2, XS \in 1..3, v \in MaskKinds, k1 \in {{}, {1, 3, 5, 7}} :
        LoadMerge([kind |-> "merge", op |-> op, XS |-> XS, XD |-> XG, v |-> v],
                  CASE op = "mmvqx_rr" -> mmvqx_rr(Xmm_x64[XG], Xmm_x64[XS])
                    [] op = "mmvqx_ld" -> mmvqx_ld(Xmm_x64[XG], D.Mecx, DP(\h40))
                    [] op = "mmvqx_st" -> mmvqx_st(Xmm_x64[XS], D.Mecx, DP(\h40)),
                  MergeZmm(v), k1)

NextMerge == LoadCK1 \/ LoadMMVQ \/ ExecMaskX64

SpecMerge == InitMask /\ [][NextMerge]_vars

(* lane by lane: G where the mask lane is 0, S where it is -1 *)
MergeOf(mask, G, S) == [l \in 0..7 |-> IF mask[l] = 0 THEN G[l] ELSE S[l]]

(***************************************************************************)
(*                              PROPERTIES                                 *)
(***************************************************************************)

(* what a request asks for that its classes cannot hold *)
ImmOutOfRange(i) == i.K # "IW" /\ (i.v < 0 \/ i.v > ImmTop[i.K])

DispOutOfRange(d) ==
    d.K # "PLAIN" /\ (d.v < 0 \/ d.v > DispTop(d.K) \/ d.v % 4 # 0)

ShiftOutOfRange(r) ==
    r.op \in DOMAIN G2 /\ "IM" \in DOMAIN r /\ (r.IM.v < 0 \/ r.IM.v > 31)

OutOfRange(r) ==
    /\ r.kind = "base"
    /\ \/ "IM" \in DOMAIN r /\ ImmOutOfRange(r.IM)
       \/ "DP" \in DOMAIN r /\ DispOutOfRange(r.DP)
       \/ ShiftOutOfRange(r)

(* the instructions of the emitted stream that carry a 4-byte displacement *)
WithDisp(ins) ==
    {i \in 1..Len(ins) : "disp" \in DOMAIN ins[i] /\ Len(ins[i].disp) = 4}

(* C1: a request with an out-of-range displacement or immediate (DP(0x1000) *)
(* at Q = 1, IC(0x80), IB(0x100), a displacement with a low bit set, a      *)
(* shift count above 31) makes the build fail; no field is emitted wrapped  *)
(* or truncated.                                                            *)
C1_OutOfRangeFailsBuild == OutOfRange(req) => status = "error"

(* the masks of the displacement classes as C2 states them *)
C2Mask(K) == CASE K = "DP" -> Or(\hFFC * Q, \hC)
               [] K = "DF" -> Or(\h3FFC * Q, \hC)
               [] K = "DG" -> Or(\h7FFC * Q, \hC)
               [] K = "DH" -> Or(\hFFFC * Q, \hC)
               [] K = "DV" -> \h7FFFFFFC

C2Case ==
    /\ status = "ok"
    /\ req.kind = "base"
    /\ "DP" \in DOMAIN req
    /\ req.DP.K # "PLAIN"
    /\ MOD(D[req.RM]) = 2

(* C2: for every displacement class K, every Q in {1, 2, 4} and every       *)
(* value v, the 32-bit displacement word of the emitted instruction is      *)
(* v & mask(K); for every 4-byte aligned v in 0..mask(K) the word is v.     *)
C2_DisplacementWord ==
    C2Case =>
        LET ins == IA32Decode(out)
            v == req.DP.v
            mask == C2Mask(req.DP.K)
        IN  /\ WithDisp(ins) # {}
            /\ \A i \in WithDisp(ins) :
                 /\ LE32(ins[i].disp) = And(v, mask)
                 /\ (v % 4 = 0 /\ v >= 0 /\ v <= mask) => LE32(ins[i].disp) = v

(* a DH displacement at the top of its class with Q = 4 is emitted as is *)
C2_Witness ==
    /\ C2Case
    /\ Q = 4
    /\ req.DP = [K |-> "DH", v |-> \h3FFFC]
    /\ \E i \in WithDisp(IA32Decode(out)) : LE32(IA32Decode(out)[i].disp) = \h3FFFC

(* the descriptors a request puts where a register is required, and where  *)
(* a memory operand is required                                            *)
RegWanted(r) ==
    (IF "RG" \in DOMAIN r THEN {r.RG} ELSE {})
    \cup (IF r.form \in {"rr", "ri", "rx"} THEN {r.RM} ELSE {})

MemWanted(r) ==
    IF r.form \in {"ld", "st", "mi", "rm", "mr", "mx"} THEN {r.RM} ELSE {}

IllegalShape(r) ==
    /\ r.kind = "base"
    /\ \/ \E d \in RegWanted(r) : MOD(D[d]) # 3
       \/ \E d \in MemWanted(r) : MOD(D[d]) = 3
       \/ "DP" \in DOMAIN r /\ r.RM = "Oeax" /\ r.DP.K # "PLAIN"
       \/ "DP" \in DOMAIN r /\ r.RM \in MemNames \ {"Oeax"} /\ r.DP.K = "PLAIN"

(* C3: an operand combination the encoding cannot express (a memory        *)
(* descriptor where a register is required, a register descriptor as the   *)
(* memory operand of _ld, _st or _mi, Oeax with a displacement other than  *)
(* PLAIN, M*** or I*** with PLAIN) is rejected at build time and no bytes  *)
(* are emitted for it.                                                     *)
C3_IllegalShapeRejected == IllegalShape(req) => status = "error" /\ out = <<>>

(* the stream holds the items p at some position, followed by a native     *)
(* divide (F7 /6 or F7 /7)                                                 *)
PreparedDivide(s, p) ==
    \E i \in 1..Len(s) :
        /\ i + Len(p) + 1 <= Len(s)
        /\ SubSeq(s, i, i + Len(p) - 1) = p
        /\ s[i + Len(p)] = [b |-> \hF7]
        /\ "b" \in DOMAIN s[i + Len(p) + 1]
        /\ (s[i + Len(p) + 1].b \div 8) % 8 \in {6, 7}

(* C5: every sub-step a rule references resolves to a defined rule; in     *)
(* particular the Redx preparation of the divwx, divwn, remwx and remwn    *)
(* composites, called between the load of Reax and the native divide,      *)
(* resolves to a defined rule that zeroes Redx (unsigned) or fills it with *)
(* the sign of Reax (signed).                                              *)
C5_RedxPreparationResolves ==
    (req.kind = "base" /\ status # "idle") =>
        /\ Unexpanded(Expand(req)) = {}
        /\ req.op \in DOMAIN G3 =>
             /\ status = "ok"
             /\ PreparedDivide(out, IF G3[req.op].ext = 6 THEN prewx_xx ELSE prewn_xx)

(* the native operation each arj operation name stands for *)
C7Native == [ and_x |-> "and", orr_x |-> "or", xor_x |-> "xor", neg_x |-> "neg",
              add_x |-> "add", sub_x |-> "sub", shl_x |-> "shl", shr_x |-> "shr" ]

C7Case == status = "ok" /\ req.kind \in {"arj", "cmj"}

(* C7: a fused cmjwx_* or arjwx_* rule emits its operation first and       *)
(* exactly one native conditional jump after it, to the requested label;   *)
(* no instruction between the operation and the jump writes the flags,     *)
(* also where a shift form saves and restores Recx around the operation;   *)
(* an arjwx_* rule emits what the wz rule of its operation emits.          *)
C7_OperationThenOneJump ==
    C7Case =>
        LET ins == IA32Decode(out)
            n == Len(ins)
            want == IF req.kind = "arj" THEN C7Native[req.opx] ELSE "cmp"
        IN  /\ n >= 2
            /\ \A i \in 1..n : ins[i].ok
            /\ "asm" \in DOMAIN ins[n]
            /\ ins[n].asm \in IA32Jumps \ {"jmp"}
            /\ ins[n].lb = req.lb
            /\ \A i \in 1..(n - 1) : "asm" \notin DOMAIN ins[i]
            /\ \E k \in 1..(n - 1) :
                 /\ IA32Op(ins[k]) = want
                 /\ \A j \in (k + 1)..(n - 1) : IA32Op(ins[j]) \notin IA32FlagWriters
            /\ req.kind = "arj" =>
                 SubSeq(out, 1, Len(out) - 1)
                   = Rule(OPX[req.opx] \o "wz",
                          IF req.form = "mr" THEN "st" ELSE req.form, Args(req))

(* a fused shift by register: Recx saved, count loaded, shift, Recx        *)
(* restored, then the jump                                                 *)
C7_Witness ==
    /\ C7Case
    /\ req.kind = "arj" /\ req.opx = "shl_x" /\ req.form = "rr"
    /\ Len(IA32Decode(out)) = 5
    /\ IA32Op(IA32Decode(out)[3]) = "shl"
    /\ IA32Op(IA32Decode(out)[4]) = "pop"
    /\ IA32Op(IA32Decode(out)[5]) = "jnz"

(***************************************************************************)
(* C4: in the x64 512-bit fp64 table a configuration whose RT_512X1 is not *)
(* one of the revisions 1, 2, 4, 8 fails the build of every rule: it never *)
(* resolves a rule to the emission of another revision.                    *)
(***************************************************************************)
C4_UndocumentedRevisionFails ==
    (req.kind = "x64" /\ RT_512X1 \notin {1, 2, 4, 8})
        => (status = "error" /\ out = <<>>)

(***************************************************************************)
(* C6: each of the ten comparison codes selects its own conditional jump   *)
(* (EQ_x je, NE_x jne, LT_x jb, LE_x jbe, GT_x ja, GE_x jae, LT_n jl,      *)
(* LE_n jle, GT_n jg, GE_n jge), and the code of cmjwx_rr(RG, RM, cc, lb)  *)
(* run on any two 32-bit values a in RG and b in RM ends at lb exactly     *)
(* when a cc b holds: unsigned for the _x codes, two's complement signed   *)
(* for the _n codes.                                                       *)
(***************************************************************************)
C6Jump == [ EQ_x |-> "je", NE_x |-> "jne", LT_x |-> "jb", LE_x |-> "jbe",
            GT_x |-> "ja", GE_x |-> "jae", LT_n |-> "jl", LE_n |-> "jle",
            GT_n |-> "jg", GE_n |-> "jge" ]

(* unsigned order of two 32-bit patterns held as signed integers *)
UnsignedLess(a, b) == IF (a < 0) = (b < 0) THEN a < b ELSE b < 0

C6Holds(cc, a, b) ==
    CASE cc = "EQ_x" -> a = b
      [] cc = "NE_x" -> a # b
      [] cc = "LT_x" -> UnsignedLess(a, b)
      [] cc = "LE_x" -> ~UnsignedLess(b, a)
      [] cc = "GT_x" -> UnsignedLess(b, a)
      [] cc = "GE_x" -> ~UnsignedLess(a, b)
      [] cc = "LT_n" -> a < b
      [] cc = "LE_n" -> a <= b
      [] cc = "GT_n" -> a > b
      [] cc = "GE_n" -> a >= b

C6_BranchIffConditionHolds ==
    (cpu.arch = "x86" /\ req.kind = "cmj" /\ req.form = "rr") =>
        /\ status = "ok"
        /\ out[Len(out)] = [asm |-> C6Jump[req.cc], lb |-> req.lb]
        /\ Halted =>
              ((cpu.target = req.lb) <=>
                  C6Holds(req.cc, cpu.entry[REG(D[req.RG])],
                                  cpu.entry[REG(D[req.RM])]))

(* a signed less-than taken where the unsigned order is the opposite *)
C6_Witness ==
    /\ Halted /\ req.kind = "cmj" /\ req.cc = "LT_n"
    /\ cpu.entry[REG(D[req.RG])] = -1 /\ cpu.entry[REG(D[req.RM])] = 1
    /\ cpu.target = req.lb

(***************************************************************************)
(* C8: on ARM, with mask the value of Xmm0 at entry: after                 *)
(* mmvox_ld(XG, MS, DS) with XG other than Xmm0 every bit of XG is         *)
(* (old XG & ~mask) | (memory & mask); after mmvox_st(XS, MG, DG) with XS  *)
(* other than Xmm0 every bit of the memory operand is                      *)
(* (old memory & ~mask) | (XS & mask).  So an all-ones mask overwrites the *)
(* destination with the source and an all-zeros mask leaves it unchanged.  *)
(***************************************************************************)
C8Merge(old, new, mask) == Or(And(old, VNot(mask)), And(new, mask))

C8Addr == ARMBase(MOD(D_arm[req.M])) + VAL(DispOf(req.M))

C8Case ==
    /\ cpu.arch = "arm" /\ req.kind = "mmv" /\ req.X # 0
    /\ cpu.pc > Len(out)

C8Dest == IF req.op = "mmvox_ld" THEN cpu.q[REG(Xmm_arm[req.X])]
          ELSE cpu.mem[C8Addr]

C8Old == IF req.op = "mmvox_ld" THEN cpu.entry.q[REG(Xmm_arm[req.X])]
         ELSE cpu.entry.mem[C8Addr]

C8New == IF req.op = "mmvox_ld" THEN cpu.entry.mem[C8Addr]
         ELSE cpu.entry.q[REG(Xmm_arm[req.X])]

C8_MaskedMerge ==
    C8Case =>
        /\ C8Dest = C8Merge(C8Old, C8New, cpu.entry.q[REG(Xmm0)])
        /\ cpu.entry.q[REG(Xmm0)] = VNot(0) => C8Dest = C8New
        /\ cpu.entry.q[REG(Xmm0)] = 0 => C8Dest = C8Old
        /\ req.op = "mmvox_st" =>
              \A a \in ARMAddrs \ {C8Addr} : cpu.mem[a] = cpu.entry.mem[a]

(* a load under a mixed mask: one bit taken from memory, one bit kept *)
C8_Witness ==
    /\ C8Case /\ req.op = "mmvox_ld"
    /\ cpu.entry.q[REG(Xmm0)] = 1 /\ C8Old = 2 /\ C8New = 1 /\ C8Dest = 3

(***************************************************************************)
(* C9 as stated: every conversion rule that reprograms the rounding        *)
(* control leaves it, at exit, equal to the value it had at entry, on      *)
(* every path: cvpos_rr, cvmos_rr, cvros_rr on ARM and cvtqn_rr, cvtqx_rr  *)
(* on x64 with RT_512X1 in {1, 4}.                                         *)
(***************************************************************************)
C9Exit == req.kind \in {"cvt", "cvtq"} /\ status = "ok" /\ cpu.pc > Len(out)

C9Control == IF cpu.arch = "arm" THEN cpu.fpscr ELSE cpu.cw

C9AtEntry == IF cpu.arch = "arm" THEN cpu.entry.fpscr ELSE cpu.entry.cw

C10Native == [ movwx |-> "mov", andwz |-> "and", orrwz |-> "or",
               xorwz |-> "xor", addwz |-> "add", subwz |-> "sub",
               cmpwx |-> "cmp", mulwx |-> "imul", adrxx |-> "lea",
               shlwz |-> "shl", shrwz |-> "shr", shrwn |-> "sar" ]

(* the rules that are one native instruction *)
C10Case ==
    /\ status = "ok"
    /\ req.kind = "base"
    /\ ~OutOfRange(req)
    /\ ~IllegalShape(req)
    /\ \/ req.op \in G0 \cup {"mulwx", "adrxx"}
       \/ req.op \in DOMAIN G2 /\ req.form \in {"ri", "mi"}

(* the base register an indexed descriptor names *)
C10Base == [ Iecx |-> 1, Iedx |-> 2, Iebx |-> 3, Iebp |-> 5, Iesi |-> 6,
             Iedi |-> 7 ]

C10Imm(x) == IF Len(x.imm) = 1 THEN x.imm[1] ELSE LE32(x.imm)

C10ShortBit(x) == (x.opc[1] \div 2) % 2 = 1

(* everything C10 states but the width of the immediate *)
C10Decoded(x) ==
    /\ Len(IA32Decode(out)) = 1
    /\ x.ok
    /\ x.next = Len(out) + 1
    /\ IA32Op(x) = C10Native[req.op]
    /\ out[Len(x.opc) + 1].b = x.mod * 64 + x.reg * 8 + x.rm
    /\ x.mod = MOD(D[req.RM])
    /\ x.rm = REG(D[req.RM])
    /\ "RG" \in DOMAIN req => x.reg = REG(D[req.RG])
    /\ (req.op = "mulwx" /\ req.form = "ri") => x.reg = REG(D[req.RM])
    /\ (req.form \in {"rr", "ld", "rm"} /\ Len(x.opc) = 1 /\ x.opc # <<\h8D>>)
          => C10ShortBit(x)
    /\ req.form \in {"st", "mr"} => ~C10ShortBit(x)
    /\ (x.sib # <<>>) <=> (x.rm = 4 /\ x.mod # 3)
    /\ (x.sib # <<>>) <=> (req.RM \in DOMAIN C10Base)
    /\ x.sib # <<>> =>
          /\ x.sib[1] \div 64 = 0
          /\ (x.sib[1] \div 8) % 8 = REG(D.Reax)
          /\ x.sib[1] % 8 = C10Base[req.RM]
    /\ Len(x.disp) = (IF x.mod = 2 THEN 4 ELSE 0)
    /\ x.mod = 2 => LE32(x.disp) = req.DP.v
    /\ (Len(x.imm) > 0) <=> (req.form \in {"ri", "mi"})
    /\ req.form \in {"ri", "mi"} =>
          /\ Len(x.imm) \in {1, 4}
          /\ C10Imm(x) = req.IM.v

C11Case == req.kind = "mulq" /\ status = "ok" /\ cpu.pc > Len(out)

C11Product(i) == Mul64(cpu.entry.zmm[req.XS][i], cpu.entry.zmm[req.XT][i])

C11_LanewiseProduct ==
    C11Case =>
        /\ \A i \in 0..7 : /\ cpu.zmm[req.XD][i] = C11Product(i)
                           /\ cpu.scr01[i] = C11Product(i)
        /\ cpu.muls = [n \in 1..8 |-> 8 * (n - 1)]
        /\ cpu.r[REG(D.Recx)] = cpu.entry.r[REG(D.Recx)]
        /\ cpu.stack = cpu.entry.stack

C11_Witness ==
    /\ C11Case
    /\ req.XD = req.XT
    /\ req.XD # req.XS
    /\ \E i \in 0..7 : /\ cpu.entry.zmm[req.XS][i] = Q64(-1, -1)
                       /\ cpu.entry.zmm[req.XT][i] = Q64(-1, -1)
                       /\ cpu.zmm[req.XD][i] = Q64(1, 0)
    /\ \E i \in 0..7 : cpu.zmm[req.XD][i] \notin {cpu.zmm[req.XD][0], Q64(0, 0)}


(***************************************************************************)
(* C12: on ARM with RT_128 < 2 and the fma, fms emulation selected, once   *)
(* the code of fmaos_rr, fmaos_ld or fmsos_rr has run, lane i of XG is     *)
(* G[i] + S[i] * T[i] (fms: G[i] - S[i] * T[i]) of the entry values, for   *)
(* each of the four lanes and every choice of registers, XG = XS included, *)
(* and every lane of every other register is as at entry.                  *)
(***************************************************************************)
C12Case == req.kind = "fma" /\ status = "ok" /\ cpu.pc > Len(out)

C12G(i) == cpu.entry.s[2 * REG(Xmm_arm[req.XG]) + i][2]

C12S(i) == cpu.entry.s[2 * REG(Xmm_arm[req.XS]) + i][2]

C12T(i) ==
    IF req.op = "fmaos_ld"
    THEN cpu.entry.mems[ARMBase(MOD(D_arm[req.M]))
                        + (IF req.M = "Oeax" THEN 0 ELSE 16)][i][2]
    ELSE cpu.entry.s[2 * REG(Xmm_arm[req.XT]) + i][2]

C12Fused(i) ==
    IF req.op = "fmsos_rr" THEN F32(RSub(C12G(i), RMul(C12S(i), C12T(i))))
    ELSE F32(RAdd(C12G(i), RMul(C12S(i), C12T(i))))

C12Holds ==
    /\ \A i \in 0..3 : cpu.s[2 * REG(Xmm_arm[req.XG]) + i] = C12Fused(i)
    /\ \A j \in 0..31 : j \div 4 # req.XG => cpu.s[j] = cpu.entry.s[j]

C12_FusedLanes == C12Case => C12Holds

(* the same with the memory form kept to a destination other than XS *)
C12_FusedLanesApart ==
    C12Case /\ (req.op = "fmaos_ld" => req.XG # req.XS) => C12Holds


(***************************************************************************)
(* C13: on ARM with RT_SIMD_COMPAT_DIV # 1, divos_rr is never a native     *)
(* divide: it is one reciprocal estimate, then three (Newton-Raphson step, *)
(* post-multiply) pairs when RT_128 < 2 (11 words) or one such pair when   *)
(* RT_128 >= 2 (7 words), then quotient multiply, residual, correction and *)
(* move, in that order; with RT_SIMD_COMPAT_SQR # 1, sqros_rr is one       *)
(* estimate, two (pre-multiply, Newton-Raphson step, post-multiply)        *)
(* triples and a multiply by the operand (8 words); the _ld forms emit the *)
(* same steps after the load of their operand.                             *)
(***************************************************************************)
C13Words == [n \in 1..(Len(out) \div 4) |-> LE32(Bytes(out, 4 * n - 3, 4))]

C13Load == IF req.op \in {"divos_ld", "sqros_ld"} THEN 2 ELSE 0

C13Operand == IF C13Load = 0 THEN REG(Xmm_arm[req.XS]) ELSE TmmD

(* the step a word takes in the refinement, from the instruction and the   *)
(* registers it names                                                      *)
C13Step(w) ==
    LET k == ARMClass(w)
        d == ARMVd(w)
        n == ARMVn(w)
        m == ARMVm(w)
        X == REG(Xmm_arm[req.X])
        S == C13Operand
    IN  CASE k \in {"vrecpe", "vrsqrte"} /\ d = TmmM /\ m = S -> "estimate"
          [] k \in {"vrecps"} /\ d = TmmC /\ n = TmmM /\ m = S -> "step"
          [] k = "vrsqrts" /\ d = TmmC /\ n = TmmC /\ m = S -> "step"
          [] k = "vmul" /\ d = TmmC /\ n = TmmM /\ m = TmmM -> "pre-multiply"
          [] k = "vmul" /\ d = TmmM /\ n = TmmM /\ m = TmmC -> "post-multiply"
          [] k = "vmul" /\ d = TmmC /\ n = X /\ m = TmmM -> "quotient"
          [] k = "vmul" /\ d = X /\ n = S /\ m = TmmM -> "operand multiply"
          [] k \in {"vmls", "vfms"} /\ d = X /\ n = S /\ m = TmmC -> "residual"
          [] k \in {"vmla", "vfma"} /\ d = TmmC /\ n = X /\ m = TmmM -> "correction"
          [] k = "vorr" /\ d = X /\ n = TmmC /\ m = TmmC -> "move"
          [] k = "add" -> "address"
          [] k = "vld1" /\ d = TmmD -> "load"
          [] OTHER -> k

C13Steps == [n \in 1..Len(C13Words) |-> C13Step(C13Words[n])]

C13Pairs(n) ==
    IF n = 3
    THEN <<"step", "post-multiply", "step", "post-multiply", "step",
           "post-multiply">>
    ELSE <<"step", "post-multiply">>

C13Expected ==
    (IF C13Load = 0 THEN <<>> ELSE <<"address", "load">>)
    \o (IF req.op \in {"divos_rr", "divos_ld"}
        THEN <<"estimate">>
             \o C13Pairs(IF req.cfg.RT_128 < 2 THEN 3 ELSE 1)
             \o <<"quotient", "residual", "correction", "move">>
        ELSE <<"estimate", "pre-multiply", "step", "post-multiply",
               "pre-multiply", "step", "post-multiply", "operand multiply">>)

C13Case ==
    /\ req.kind = "div"
    /\ IF req.op \in {"divos_rr", "divos_ld"} THEN req.cfg.DIV # 1
       ELSE req.cfg.SQR # 1

C13_RefinementSequence ==
    C13Case =>
        /\ C13Steps = C13Expected
        /\ Len(C13Words) - C13Load =
               (IF req.op \in {"sqros_rr", "sqros_ld"} THEN 8
                ELSE IF req.cfg.RT_128 < 2 THEN 11 ELSE 7)
        /\ \A n \in 1..Len(C13Words) :
               ARMClass(C13Words[n]) \notin {"vdiv", "vsqrt", "?"}

C13_Witness ==
    /\ C13Case
    /\ req.op = "divos_ld"
    /\ req.cfg.RT_128 = 1 /\ req.cfg.DIV = 2
    /\ Len(C13Words) = 13
    /\ C13Steps[4] = "step" /\ C13Steps[13] = "move"


(***************************************************************************)
(* C14: in exact arithmetic, one refinement step turns an estimate G of    *)
(* 1/S into G * (2 - S * G) in rcsos_rr (ARM) and in rcsqs_rr (x64,        *)
(* RT_SIMD_COMPAT_RCP = 2), and an estimate G of 1/sqrt(S) into            *)
(* G * (3 - S * G * G) / 2 in rssos_rr and in rssqs_rr                     *)
(* (RT_SIMD_COMPAT_RSQ = 2, constants 3 and -1/2); the result is in XG and *)
(* no register other than XG and XS has changed.                           *)
(***************************************************************************)
C14Case == req.kind = "rcs" /\ status = "ok" /\ cpu.pc > Len(out)

C14Lanes == IF cpu.arch = "arm" THEN 0..3 ELSE 0..7

(* lane k of register n in the processor state c *)
C14Reg(c, n, k) ==
    IF cpu.arch = "arm" THEN c.s[2 * REG(Xmm_arm[n]) + k][2] ELSE c.zmm[n][k]

C14Refined(G, S) ==
    IF req.op \in {"rcsos_rr", "rcsqs_rr"}
    THEN RMul(G, RSub(R(2), RMul(S, G)))
    ELSE RMul(RMul(G, RSub(R(3), RMul(S, RMul(G, G)))), RHalf)

C14_RefinementStep ==
    C14Case =>
        \A k \in C14Lanes :
            /\ C14Reg(cpu, req.XG, k) =
                   C14Refined(C14Reg(cpu.entry, req.XG, k),
                              C14Reg(cpu.entry, req.XS, k))
            /\ \A n \in 0..7 : n \notin {req.XG, req.XS} =>
                   C14Reg(cpu, n, k) = C14Reg(cpu.entry, n, k)

C14_Witness ==
    /\ C14Case
    /\ req.op = "rssqs_rr"
    /\ C14Reg(cpu.entry, req.XG, 1) = <<0 - 5, 0>>
    /\ C14Reg(cpu.entry, req.XS, 1) = <<7, 1>>
    /\ C14Reg(cpu, req.XG, 1) = <<845, 2>>
    /\ C14Reg(cpu, req.XS, 1) # C14Reg(cpu.entry, req.XS, 1)


(***************************************************************************)
(* C15: on ARM, for a SIMD memory operand of displacement type 0, 1 or 2   *)
(* and a 16-byte-aligned dp of the type's range, the address the emitted   *)
(* code computes is base + dp: type 0 carries dp & 0xFF0 as an 8-bit       *)
(* immediate rotated to bits 4..11 of the add, type 1 loads dp & 0xFFF0    *)
(* into TDxx with one MOVW, type 2 loads dp & 0x7FFFFFF0 with a MOVW and a *)
(* MOVT, each before the add takes TDxx as its second operand; the imm4    *)
(* and imm12 fields of MOVW and MOVT put together give dp.                 *)
(***************************************************************************)
C15Case == req.kind = "disp" /\ status = "ok" /\ cpu.pc > Len(out)

C15Words == [n \in 1..(Len(out) \div 4) |-> LE32(Bytes(out, 4 * n - 3, 4))]

C15Imm16(w) == Bits(w, 16, 4) * 4096 + Bits(w, 0, 12)

C15Base == ARMBase(MOD(D_arm[req.M]))

C15Shape ==
    LET W == C15Words
        one == ARMClass(W[1])
    IN  CASE req.DS[3] = 0 ->
                 /\ Len(W) = 2 /\ one = "add"
                 /\ Bits(W[1], 8, 4) = \hE
                 /\ Bits(W[1], 0, 8) * 16 = And(req.dp, \hFF0)
          [] req.DS[3] = 1 ->
                 /\ Len(W) = 3 /\ one = "movw"
                 /\ ARMClass(W[2]) = "add_r" /\ Bits(W[2], 0, 4) = T.Dxx
                 /\ Bits(W[1], 12, 4) = T.Dxx
                 /\ C15Imm16(W[1]) = And(req.dp, \hFFF0)
          [] req.DS[3] = 2 ->
                 /\ Len(W) = 4 /\ one = "movw" /\ ARMClass(W[2]) = "movt"
                 /\ ARMClass(W[3]) = "add_r" /\ Bits(W[3], 0, 4) = T.Dxx
                 /\ Bits(W[1], 12, 4) = T.Dxx /\ Bits(W[2], 12, 4) = T.Dxx
                 /\ C15Imm16(W[2]) * 65536 + C15Imm16(W[1])
                        = And(req.dp, \h7FFFFFF0)

C15_AddressIsBasePlusDisplacement ==
    C15Case =>
        /\ C15Shape
        /\ cpu.r[T.Pxx] = Add32(C15Base, req.dp)
        /\ \A j \in 0..3 :
               cpu.s[2 * REG(Xmm_arm[req.X]) + j] = F32(R(7 + j))

C15_Witness ==
    /\ C15Case
    /\ req.DS[3] = 2
    /\ req.dp = \h7FFFFFF0
    /\ cpu.r[T.Dxx] = \h7FFFFFF0
    /\ cpu.s[2 * REG(Xmm_arm[req.X]) + 3] = F32(R(10))


(***************************************************************************)
(* C16: under every documented build configuration, every rule name that   *)
(* the ARM 128-bit table and the x64 512-bit table define has exactly one  *)
(* active definition: no name is left without one and none has two.        *)
(***************************************************************************)
C16_ExactlyOneDefinition ==
    req.kind = "cfg" => req.many = {} /\ req.none = {}

(* the names a table leaves without a definition under a configuration:    *)
(* the estimate and step of rcp and rsq at flag value 1, fma and fms at    *)
(* flag value 2, and the scalar loop of the 64-bit multiply outside        *)
(* revisions 1 and 4                                                       *)
C16Open ==
    LET c == req.cfg
        x == IF req.table = "arm" THEN "o" ELSE "q"
    IN  (IF c.RCP = 1 THEN {"rce" \o x \o "s_rr", "rcs" \o x \o "s_rr"} ELSE {})
        \cup (IF c.RSQ = 1 THEN {"rse" \o x \o "s_rr", "rss" \o x \o "s_rr"}
              ELSE {})
        \cup (IF c.FMA = 2 THEN {"fma" \o x \o "s_rr", "fma" \o x \o "s_ld"}
              ELSE {})
        \cup (IF c.FMS = 2 THEN {"fms" \o x \o "s_rr", "fms" \o x \o "s_ld"}
              ELSE {})
        \cup (IF req.table = "x64" /\ c.RT_512X1 \notin {1, 4}
              THEN {"mulqx_rx"} ELSE {})

C16_AtMostOneDefinition ==
    req.kind = "cfg" => req.many = {} /\ req.none = C16Open

C16_Witness ==
    /\ req.kind = "cfg"
    /\ req.table = "arm"
    /\ req.cfg.RT_128 = 1 /\ req.cfg.DIV = 2 /\ req.cfg.FMA = 2
    /\ req.cfg.RCP = 0 /\ req.cfg.RSQ = 0 /\ req.cfg.FMS = 1
    /\ req.none = {"fmaos_rr", "fmaos_ld"}
    /\ \E i \in Kept(ARMTable, req.cfg) :
           "divos_rr" \in NamesOf(ARMTable[i]) /\ Len(ARMTable[i].when) = 3


(***************************************************************************)
(* C17: two streams run concurrently, each with its own info block in Mebp *)
(* and its own stack, never store to the same cell, and under every        *)
(* interleaving each thread's registers are those of the same code run     *)
(* alone: every scratch value read back is the value the thread wrote.     *)
(***************************************************************************)
C17Regs(c) ==
    IF c.arch = "arm"
    THEN [q |-> c.q, s |-> c.s, dd |-> c.dd, r |-> c.r, pc |-> c.pc]
    ELSE [zmm |-> c.zmm, r |-> c.r, stack |-> c.stack, pc |-> c.pc]

C18Piece(i) ==
    SubSeq(out, IF i = 1 THEN 1 ELSE cpu.cuts[i - 1] + 1, cpu.cuts[i])

C20Done ==
    /\ cpu.arch = "ia32"
    /\ status = "error" \/ cpu.pc \notin 1..Len(Code)

RECURSIVE C20Nested(_, _)
C20Nested(log, open) ==
    IF log = <<>> THEN open = <<>>
    ELSE IF Head(log)[1] = "push"
    THEN C20Nested(Tail(log), <<Head(log)>> \o open)
    ELSE /\ open # <<>>
         /\ Head(open)[2] = Head(log)[2] /\ Head(open)[3] = Head(log)[3]
         /\ C20Nested(Tail(log), Tail(open))

(* the cell the memory operand of the request names at entry *)
C20Cell ==
    LET m == D[req.RM]
        base == IF SIB(m) # <<>>
                THEN Add32(cpu.entry[SIB(m)[1].b], cpu.entry[0])
                ELSE cpu.entry[REG(m)]
    IN  Add32(base, IF MOD(m) = 0 THEN 0 ELSE req.DP.v)

C20Operation == [shlwz |-> "shl", shrwz |-> "shr", shrwn |-> "sar"][req.op]

C20Frame(dest) ==
    /\ status = "ok"
    /\ cpu.pc = Len(Code) + 1
    /\ cpu.log # <<>>
    /\ C20Nested(cpu.log, <<>>)
    /\ \A n \in 0..7 : n \notin dest => cpu.regs[n] = cpu.entry[n]

C20ShiftDone ==
    CASE req.form = "rr" ->
             /\ C20Frame({REG(D[req.RG])})
             /\ cpu.regs[REG(D[req.RG])] =
                    IA32Shift(C20Operation, cpu.entry[REG(D[req.RG])],
                              And(cpu.entry[REG(D[req.RM])], 31))
             /\ \A a \in DOMAIN cpu.mem : a >= StackTop - 4
      [] req.form = "ld" ->
             /\ C20Frame({REG(D[req.RG])})
             /\ cpu.regs[REG(D[req.RG])] =
                    IA32Shift(C20Operation, cpu.entry[REG(D[req.RG])],
                              And(Cell0(C20Cell), 31))
             /\ \A a \in DOMAIN cpu.mem : a >= StackTop - 4
      [] req.form = "st" ->
             /\ C20Frame({})
             /\ MemRead(cpu.mem, C20Cell) =
                    IA32Shift(C20Operation, Cell0(C20Cell),
                              And(cpu.entry[REG(D[req.RG])], 31))
             /\ \A a \in DOMAIN cpu.mem : a >= StackTop - 4 \/ a = C20Cell

C20_FramePreserved ==
    C20Done => /\ status = "ok"
               /\ req.op \in DOMAIN G2
               /\ C20ShiftDone

(* the same for the shifts alone, the st form with a memory operand that   *)
(* is not addressed through Recx                                           *)
C20_ShiftFrameApart ==
    (C20Done /\ req.op \in DOMAIN G2
       /\ (req.form = "st" => req.RM \notin {"Mecx", "Iecx"}))
    => C20ShiftDone


(***************************************************************************)
(* C21: a composite that loads an implicit register before it touches its  *)
(* memory operand (the st forms of the shifts, the ld forms of divide and  *)
(* remainder) reads or writes the cell addressed by the base and index     *)
(* values of entry, and no other cell outside the stack.                   *)
(***************************************************************************)
C21Case ==
    /\ C20Done
    /\ \/ req.op \in DOMAIN G2 /\ req.form = "st"
       \/ req.op \in DOMAIN G3 /\ req.form = "ld"

C21_OperandAddressedAtEntry ==
    C21Case => status = "ok" /\ cpu.acc = {C20Cell}

(* the same for the st forms of the shifts whose operand is not addressed  *)
(* through Recx                                                            *)
C21_OperandApart ==
    (C21Case /\ req.op \in DOMAIN G2 /\ req.RM \notin {"Mecx", "Iecx"})
    => status = "ok" /\ cpu.acc = {C20Cell}


(***************************************************************************)
(* C22: under RT_512X1 in {1, 4} cuzqs_rr converts each of the eight lanes *)
(* once; a lane x with 0 <= x < 2^64 is left as trunc(x), an unsigned      *)
(* 64-bit integer: below 2^63 by the direct truncating store alone, from   *)
(* 2^63 on by the truncating store of x - 2^63 followed by one add of      *)
(* 0x80000000 to the high word.  The jumps land on the first rule after    *)
(* the skipped ones with and without the prefix 0x67, 0x5F000000 is 2^63   *)
(* in fp32, and the x87 stack at exit is the stack of entry.               *)
(***************************************************************************)
C22Exit == req.kind = "cuz" /\ status = "ok" /\ cpu.pc > Len(out)

C22High(k) == ~FLess(cpu.entry.zmm[req.XS][k].f, <<1, 0 - 63>>)

C23Exit == req.kind = "cvn" /\ status = "ok" /\ cpu.pc > Len(out)

C24Nested ==
    /\ req.kind = "cvtq" /\ status = "ok"
    /\ cpu.pc > Len(fpucw_from_mxcsr) /\ cpu.pc <= Len(out)

C24Rounding ==
    /\ Bits(cpu.cw, 10, 2) = Bits(cpu.mxcsr, 13, 2)
    /\ Bits(cpu.cw, 0, 6) = 63

C24_PrecisionOfEntry ==
    C24Nested =>
        /\ C24Rounding
        /\ Bits(cpu.cw, 8, 2) = Bits(cpu.entry.cw, 8, 2)
        /\ \A k \in 0..7 :
              cpu.scr01[k].prec \in {-1, Bits(cpu.entry.cw, 8, 2)}

(* as the code has it: the rounding control and the masks are as stated,   *)
(* the precision control is 0 (24-bit significand) whatever it was at entry *)
C24_PrecisionCleared ==
    C24Nested =>
        /\ C24Rounding
        /\ Bits(cpu.cw, 8, 2) = 0
        /\ \A k \in 0..7 : cpu.scr01[k].prec \in {-1, 0}


(***************************************************************************)
(* C25: on ARM with RT_128 >= 4, cvros_rr(XD, XS, m) emits the word of the *)
(* rule dedicated to the mode m (cvnos_rr, cvpos_rr, cvmos_rr, cvzos_rr),  *)
(* for the four modes and their _F variants under either value of          *)
(* RT_SIMD_FLUSH_ZERO; the mode field is 0x100, 0x200, 0x300 and 0x700,    *)
(* and the four modes differ in m & 3.                                     *)
(***************************************************************************)
C25Dedicated(XD, XS, mode) ==
    CASE mode \in {"ROUNDN", "ROUNDN_F"} -> cvnos_rr_v4(XD, XS)
      [] mode \in {"ROUNDP", "ROUNDP_F"} -> cvpos_rr_v4(XD, XS)
      [] mode \in {"ROUNDM", "ROUNDM_F"} -> cvmos_rr_v4(XD, XS)
      [] mode \in {"ROUNDZ", "ROUNDZ_F"} -> cvzos_rr_v4(XD, XS)

C25Field(mode) ==
    CASE mode \in {"ROUNDN", "ROUNDN_F"} -> \h100
      [] mode \in {"ROUNDP", "ROUNDP_F"} -> \h200
      [] mode \in {"ROUNDM", "ROUNDM_F"} -> \h300
      [] mode \in {"ROUNDZ", "ROUNDZ_F"} -> \h700

C25_SameWordAsDedicatedRule ==
    /\ \A f \in {0, 1} : \A a, b \in DOMAIN RT_SIMD_MODE :
          a # b => And(RT_SIMD_MODE_of(f, a), 3) # And(RT_SIMD_MODE_of(f, b), 3)
    /\ req.kind = "cvr" =>
         /\ out = C25Dedicated(Xmm_arm[req.XD], Xmm_arm[req.XS], req.mode)
         /\ And(LE32(Bytes(out, 1, 4)), \hF00) = C25Field(req.mode)

(* round-towards-zero asked for with flush-to-zero configured, on two      *)
(* different registers                                                     *)
C25_Witness ==
    /\ req.kind = "cvr" /\ req.mode = "ROUNDZ" /\ req.FLUSH_ZERO = 1
    /\ req.XD # req.XS
    /\ out = cvzos_rr_v4(Xmm_arm[req.XD], Xmm_arm[req.XS])


(***************************************************************************)
(* C26: with a true comparison worth -1, shrox_ri and shron_ri encode for  *)
(* an immediate n in 1..31 a right shift of the 32-bit lanes of XG by n:   *)
(* bits 16..20 hold 32 - n, bit 24 is set for shrox_ri (unsigned) and      *)
(* clear for shron_ri (signed); for n = 0 they encode a left shift by 0:   *)
(* bits 0x500 set, bit 24 clear, shift field 0, the word of shlox_ri.      *)
(***************************************************************************)
C26Word == LE32(Bytes(out, 1, 4))

C26_RightShiftByImmediate ==
    (req.kind = "shift" /\ req.op \in {"shrox_ri", "shron_ri"}) =>
        /\ Len(out) = 4
        /\ ARMShiftOf(C26Word).reg = 2 * req.XG
        /\ ARMShiftOf(C26Word).from = 2 * req.XG
        /\ IF req.IS = 0
           THEN /\ And(C26Word, \hF00) = \h500
                /\ Bits(C26Word, 24, 1) = 0
                /\ Bits(C26Word, 16, 5) = 0
                /\ ARMShiftOf(C26Word).op = "vshl.i32"
                /\ ARMShiftOf(C26Word).by = 0
                /\ out = shlox_ri(Xmm_arm[req.XG], IS_arm(0))
           ELSE /\ And(C26Word, \hF00) = 0
                /\ Bits(C26Word, 16, 5) = 32 - req.IS
                /\ Bits(C26Word, 24, 1) = IF req.op = "shrox_ri" THEN 1 ELSE 0
                /\ ARMShiftOf(C26Word).op =
                     (IF req.op = "shrox_ri" THEN "vshr.u32" ELSE "vshr.s32")
                /\ ARMShiftOf(C26Word).by = req.IS

(* an unsigned shift by 31 and one by 0 built *)
C26_Witness ==
    /\ req.kind = "shift" /\ req.op = "shrox_ri" /\ req.IS \in {0, 31}
    /\ req.XG = 5
    /\ ARMShiftOf(C26Word).op \in {"vshr.u32", "vshl.i32"}
    /\ ARMShiftOf(C26Word).by = req.IS


(***************************************************************************)
(* C27: for a vector XS of canonical masks (each lane all-zeros or         *)
(* all-ones), CHECK_MASK(lb, mask, XS) on ARM and mkjqx_rx(XS, mask, lb)   *)
(* on x64 jump to lb exactly when mask is NONE and every lane is           *)
(* all-zeros, or mask is FULL and every lane is all-ones; a vector with    *)
(* lanes of both kinds jumps for neither.  RT_SIMD_MASK_FULL64_512 has one *)
(* bit for each of the eight 64-bit lanes.                                 *)
(***************************************************************************)
C27Exit ==
    /\ req.kind = "mask" /\ status = "ok"
    /\ req.op \in {"CHECK_MASK", "mkjqx_rx"}
    /\ cpu.pc > Len(out)

C27_JumpsOnNoneOrFull ==
    /\ RT_SIMD_MASK_64_512.FULL = 1 + 2 + 4 + 8 + 16 + 32 + 64 + 128
    /\ req.kind = "mask" => cpu.pc <= Len(out) + 1
    /\ C27Exit =>
         cpu.jumped = \/ req.mask = "NONE" /\ req.v = "none"
                      \/ req.mask = "FULL" /\ req.v = "full"

(* both rules run to a jump taken on a full vector and to a jump not taken *)
(* on a vector whose low half alone is set                                 *)
C27_Witness ==
    /\ C27Exit /\ req.mask = "FULL"
    /\ \/ req.v = "full" /\ cpu.jumped
       \/ req.v = "low" /\ ~cpu.jumped /\ req.op = "CHECK_MASK"

(***************************************************************************)
(* C28: for every combination of CPUID results, the word verxx_xx stores   *)
(* to inf_VER has no bit outside {0, 1, 2, 8, 9}; bits 0 and 1 are         *)
(* CPUID.1:EDX bits 25 and 26, bit 2 is CPUID.1:ECX bit 19, bit 8 is       *)
(* CPUID.1:ECX bit 28, and bit 9 is set exactly when the maximum basic     *)
(* leaf is at least 7 and CPUID.7:EBX bit 5 is set.                        *)
(***************************************************************************)
C28Exit ==
    /\ req.kind = "ver"
    /\ status = "ok"
    /\ cpu.pc = Len(VerCode) + 1

C28Word ==
    Bits(cpu.id.edx1, 25, 2)
    + 4 * Bits(cpu.id.ecx1, 19, 1)
    + 256 * Bits(cpu.id.ecx1, 28, 1)
    + 512 * (IF cpu.id.max >= 7 THEN Bits(cpu.id.ebx7, 5, 1) ELSE 0)

C28_FeatureWordOfCpuid ==
    /\ req.kind = "ver" => cpu.pc # 0
    /\ C28Exit =>
           /\ DOMAIN cpu.inf = {"inf_VER"}
           /\ cpu.inf["inf_VER"] = C28Word
           /\ cpu.asked = {0, 1, 7}

C28_Witness ==
    /\ C28Exit
    /\ cpu.id.max < 7
    /\ Bits(cpu.id.ebx7, 5, 1) = 1
    /\ cpu.id.edx1 < 0
    /\ cpu.id.ecx1 < 0
    /\ cpu.inf["inf_VER"] = 1 + 256

(***************************************************************************)
(* C29: every rule of the x64 512-bit table that takes a memory operand    *)
(* emits ADR immediately before the vector prefix of the instruction that  *)
(* carries the memory operand; no memory-operand rule omits it.            *)
(***************************************************************************)
C29Case == req.kind = "adr" /\ status = "ok"

C29_AdrBeforeEveryMemoryOperand ==
    C29Case =>
        /\ \A i \in 1..Len(out) : MemOperandAt(i) => AdrAt(i - 1)
        /\ \A i \in 1..Len(out) : AdrAt(i) => MemOperandAt(i + 1)

(* ADR precedes the vector prefix of every memory operand except that of   *)
(* selqx_ld, and is emitted nowhere else                                   *)
C29_AdrExceptSelect ==
    C29Case =>
        /\ \A i \in 1..Len(out) :
               MemOperandAt(i) => (AdrAt(i - 1) <=> req.op # "selqx_ld")
        /\ \A i \in 1..Len(out) :
               AdrAt(i) => i < Len(out) /\ MemOperandAt(i + 1)

(***************************************************************************)
(* C30: on vectors of canonical 64-bit masks, ck1qx_rm sets in k1 exactly  *)
(* the lanes that are -1 under revisions {1, 4} and {2, 8} alike, mz1qx_ld *)
(* expands k1 to the vector with -1 in the lanes of k1 and 0 elsewhere     *)
(* under both groups, ck1qx_rm followed by mz1qx_ld reproduces the vector, *)
(* and mmvqx_rr, mmvqx_ld and mmvqx_st keep G where the Xmm0 lane is 0 and *)
(* pick S where it is -1 in all four revisions.                            *)
(***************************************************************************)
C30Exit ==
    /\ req.kind = "merge"
    /\ status = "ok"
    /\ cpu.pc = Len(out) + 1

C30Ones(vec) == {l \in 0..7 : vec[l] = 0 - 1}

C30Expand(S) == [l \in 0..7 |-> IF l \in S THEN 0 - 1 ELSE 0]

C30Others(keep) ==
    /\ \A n \in (0..7) \ keep : cpu.zmm[n] = cpu.entry.zmm[n]
    /\ \A n \in (0..7) \ {1} : cpu.k[n] = {n}

C30_MaskRoundTripAndMerge ==
    /\ req.kind = "merge" => status = "ok" /\ cpu.pc <= Len(out) + 1
    /\ C30Exit /\ req.op = "ck1qx_rm" =>
           /\ cpu.k[1] = C30Ones(cpu.entry.zmm[req.XS])
           /\ C30Others({})
           /\ cpu.cell = cpu.entry.cell
    /\ C30Exit /\ req.op = "mz1qx_ld" =>
           /\ cpu.zmm[req.XD] = C30Expand(cpu.entry.k1)
           /\ cpu.k[1] = cpu.entry.k1
           /\ C30Others({req.XD})
           /\ cpu.cell = cpu.entry.cell
    /\ C30Exit /\ req.op = "ck1qx_rm+mz1qx_ld" =>
           /\ cpu.zmm[req.XD] = cpu.entry.zmm[req.XS]
           /\ C30Others({req.XD})
           /\ cpu.cell = cpu.entry.cell
    /\ C30Exit /\ req.op = "mmvqx_rr" =>
           /\ cpu.zmm[req.XD] = MergeOf(cpu.entry.zmm[0], cpu.entry.zmm[req.XD],
                                        cpu.entry.zmm[req.XS])
           /\ C30Others({req.XD})
           /\ cpu.cell = cpu.entry.cell
    /\ C30Exit /\ req.op = "mmvqx_ld" =>
           /\ cpu.zmm[req.XD] = MergeOf(cpu.entry.zmm[0], cpu.entry.zmm[req.XD],
                                        cpu.entry.cell.mem)
           /\ C30Others({req.XD})
           /\ cpu.cell = cpu.entry.cell
    /\ C30Exit /\ req.op = "mmvqx_st" =>
           /\ cpu.cell.mem = MergeOf(cpu.entry.zmm[0], cpu.entry.cell.mem,
                                     cpu.entry.zmm[req.XS])
           /\ cpu.cell.inf_GPC07 = cpu.entry.cell.inf_GPC07
           /\ C30Others({})

C30_Witness ==
    /\ C30Exit
    /\ req.op = "mmvqx_st"
    /\ req.v = "odd"
    /\ RT_512X1 = 2
    /\ cpu.entry.k1 = {}
    /\ cpu.cell.mem[0] = 200
    /\ cpu.cell.mem[1] = 16 * req.XS + 2

====
